---- MODULE Spec2Model ----
(***************************************************************************)
(* Model of the ICS multi-agent risk pipeline (backend/agents.py,          *)
(* backend/risk_mapping.py, backend/app.py): the RiskMappingAgent with its *)
(* lifetime counters, the scoring agents, the CoordinationAgent state      *)
(* machine with its execution log, and the application's threads and       *)
(* real-time simulation.                                                   *)
(*                                                                         *)
(* Numbers: probabilities are integer percents, scores and rates are kept  *)
(* as exact fractions (numerator over a stated denominator), the risk      *)
(* distribution is kept in thousandths as round(x, 3) produces it.         *)
(***************************************************************************)
EXTENDS Integers, Sequences, FiniteSets, TLC

(* ------------------------------------------------------------------ *)
(* Bounds of the model                                                 *)
(* ------------------------------------------------------------------ *)
\* rows of every sensor frame (a z-score above 2 needs at least 6 rows)
NumRows == 6
\* direct RiskMappingAgent calls explored by SpecMapper
MaxMapCalls == 2
\* process_data calls explored by Spec
MaxCalls == 2

(* ------------------------------------------------------------------ *)
(* risk_mapping.py: static tables                                      *)
(* ------------------------------------------------------------------ *)
RISK_CATEGORIES ==
  << "Water Overflow", "Pump Damage", "Water Quality Degradation",
     "Unsafe Chemical Dosing", "Process Interruption", "Unauthorized Access",
     "Data Tampering", "Denial of Service" >>

RiskSet == { RISK_CATEGORIES[i] : i \in 1..Len(RISK_CATEGORIES) }

SENSOR_RISK_MAP ==
  << [sensor |-> "LIT-101", risks |-> << "Water Overflow", "Process Interruption", "Data Tampering" >>],
     [sensor |-> "FIT-101", risks |-> << "Pump Damage", "Unsafe Chemical Dosing", "Process Interruption", "Data Tampering" >>],
     [sensor |-> "P-101", risks |-> << "Pump Damage", "Process Interruption" >>],
     [sensor |-> "P-102", risks |-> << "Pump Damage", "Process Interruption" >>],
     [sensor |-> "MV-101", risks |-> << "Water Overflow", "Process Interruption" >>],
     [sensor |-> "AIT-101", risks |-> << "Water Quality Degradation", "Data Tampering" >>],
     [sensor |-> "AIT-102", risks |-> << "Water Quality Degradation", "Data Tampering" >>],
     [sensor |-> "DPIT-101", risks |-> << "Pump Damage", "Process Interruption" >>],
     [sensor |-> "FIT-201", risks |-> << "Unsafe Chemical Dosing", "Water Quality Degradation", "Process Interruption" >>],
     [sensor |-> "AIT-201", risks |-> << "Water Quality Degradation", "Unsafe Chemical Dosing", "Data Tampering" >>],
     [sensor |-> "AIT-202", risks |-> << "Water Quality Degradation", "Unsafe Chemical Dosing", "Data Tampering" >>],
     [sensor |-> "AIT-203", risks |-> << "Water Quality Degradation", "Unsafe Chemical Dosing", "Data Tampering" >>],
     [sensor |-> "P-201", risks |-> << "Pump Damage", "Unsafe Chemical Dosing" >>],
     [sensor |-> "P-202", risks |-> << "Pump Damage", "Unsafe Chemical Dosing" >>],
     [sensor |-> "P-203", risks |-> << "Pump Damage", "Unsafe Chemical Dosing" >>],
     [sensor |-> "P-204", risks |-> << "Pump Damage", "Unsafe Chemical Dosing" >>],
     [sensor |-> "MV-201", risks |-> << "Unsafe Chemical Dosing", "Process Interruption" >>],
     [sensor |-> "FIT-301", risks |-> << "Pump Damage", "Process Interruption", "Data Tampering" >>],
     [sensor |-> "LIT-301", risks |-> << "Water Overflow", "Process Interruption", "Data Tampering" >>],
     [sensor |-> "DPIT-301", risks |-> << "Pump Damage", "Process Interruption" >>],
     [sensor |-> "P-301", risks |-> << "Pump Damage", "Process Interruption" >>],
     [sensor |-> "P-302", risks |-> << "Pump Damage", "Process Interruption" >>],
     [sensor |-> "MV-301", risks |-> << "Water Overflow", "Process Interruption" >>],
     [sensor |-> "MV-302", risks |-> << "Water Overflow", "Process Interruption" >>],
     [sensor |-> "AIT-301", risks |-> << "Water Quality Degradation", "Data Tampering" >>],
     [sensor |-> "AIT-302", risks |-> << "Water Quality Degradation", "Data Tampering" >>],
     [sensor |-> "AIT-303", risks |-> << "Water Quality Degradation", "Data Tampering" >>],
     [sensor |-> "FIT-401", risks |-> << "Pump Damage", "Process Interruption", "Data Tampering" >>],
     [sensor |-> "LIT-401", risks |-> << "Water Overflow", "Process Interruption", "Data Tampering" >>],
     [sensor |-> "AIT-401", risks |-> << "Water Quality Degradation", "Unsafe Chemical Dosing", "Data Tampering" >>],
     [sensor |-> "AIT-402", risks |-> << "Water Quality Degradation", "Unsafe Chemical Dosing", "Data Tampering" >>],
     [sensor |-> "P-401", risks |-> << "Pump Damage", "Process Interruption" >>],
     [sensor |-> "P-402", risks |-> << "Pump Damage", "Process Interruption" >>],
     [sensor |-> "P-403", risks |-> << "Pump Damage", "Process Interruption" >>],
     [sensor |-> "UV-401", risks |-> << "Water Quality Degradation", "Process Interruption" >>],
     [sensor |-> "FIT-501", risks |-> << "Pump Damage", "Water Quality Degradation", "Process Interruption" >>],
     [sensor |-> "FIT-502", risks |-> << "Pump Damage", "Water Quality Degradation", "Process Interruption" >>],
     [sensor |-> "FIT-503", risks |-> << "Pump Damage", "Water Quality Degradation", "Process Interruption" >>],
     [sensor |-> "PIT-501", risks |-> << "Pump Damage", "Process Interruption", "Data Tampering" >>],
     [sensor |-> "PIT-502", risks |-> << "Pump Damage", "Process Interruption", "Data Tampering" >>],
     [sensor |-> "P-501", risks |-> << "Pump Damage", "Process Interruption" >>],
     [sensor |-> "P-502", risks |-> << "Pump Damage", "Process Interruption" >>],
     [sensor |-> "AIT-501", risks |-> << "Water Quality Degradation", "Data Tampering" >>],
     [sensor |-> "FIT-601", risks |-> << "Pump Damage", "Process Interruption", "Data Tampering" >>],
     [sensor |-> "LIT-601", risks |-> << "Water Overflow", "Process Interruption", "Data Tampering" >>],
     [sensor |-> "P-601", risks |-> << "Pump Damage", "Process Interruption" >>],
     [sensor |-> "P-602", risks |-> << "Pump Damage", "Process Interruption" >>],
     [sensor |-> "P-603", risks |-> << "Pump Damage", "Process Interruption" >>],
     [sensor |-> "DPIT-601", risks |-> << "Pump Damage", "Process Interruption" >>],
     [sensor |-> "AIT-601", risks |-> << "Water Quality Degradation", "Data Tampering" >>],
     [sensor |-> "AIT-602", risks |-> << "Water Quality Degradation", "Data Tampering" >>] >>

SENSOR_STAGE_MAP ==
  << <<"LIT-101", "P1">>, <<"FIT-101", "P1">>, <<"P-101", "P1">>, <<"P-102", "P1">>,
     <<"MV-101", "P1">>, <<"AIT-101", "P1">>, <<"AIT-102", "P1">>, <<"DPIT-101", "P1">>,
     <<"FIT-201", "P2">>, <<"AIT-201", "P2">>, <<"AIT-202", "P2">>, <<"AIT-203", "P2">>,
     <<"P-201", "P2">>, <<"P-202", "P2">>, <<"P-203", "P2">>, <<"P-204", "P2">>,
     <<"MV-201", "P2">>, <<"FIT-301", "P3">>, <<"LIT-301", "P3">>, <<"DPIT-301", "P3">>,
     <<"P-301", "P3">>, <<"P-302", "P3">>, <<"MV-301", "P3">>, <<"MV-302", "P3">>,
     <<"AIT-301", "P3">>, <<"AIT-302", "P3">>, <<"AIT-303", "P3">>, <<"FIT-401", "P4">>,
     <<"LIT-401", "P4">>, <<"AIT-401", "P4">>, <<"AIT-402", "P4">>, <<"P-401", "P4">>,
     <<"P-402", "P4">>, <<"P-403", "P4">>, <<"UV-401", "P4">>, <<"FIT-501", "P5">>,
     <<"FIT-502", "P5">>, <<"FIT-503", "P5">>, <<"PIT-501", "P5">>, <<"PIT-502", "P5">>,
     <<"P-501", "P5">>, <<"P-502", "P5">>, <<"AIT-501", "P5">>, <<"FIT-601", "P6">>,
     <<"LIT-601", "P6">>, <<"P-601", "P6">>, <<"P-602", "P6">>, <<"P-603", "P6">>,
     <<"DPIT-601", "P6">>, <<"AIT-601", "P6">>, <<"AIT-602", "P6">> >>

SensorNames == { SENSOR_RISK_MAP[i].sensor : i \in 1..Len(SENSOR_RISK_MAP) }

\* the two tables as lookup functions
RiskMapFn ==
  [s \in SensorNames |->
     (CHOOSE e \in { SENSOR_RISK_MAP[i] : i \in 1..Len(SENSOR_RISK_MAP) } :
        e.sensor = s).risks]

StageMapFn ==
  [s \in { SENSOR_STAGE_MAP[i][1] : i \in 1..Len(SENSOR_STAGE_MAP) } |->
     (CHOOSE p \in { SENSOR_STAGE_MAP[i] : i \in 1..Len(SENSOR_STAGE_MAP) } :
        p[1] = s)[2]]

\* variant of the table lookup in which the pump P-101 also maps to
\* "Unauthorized Access"
RisksOfWithAccess(sensor_name) ==
  IF sensor_name \in DOMAIN RiskMapFn
  THEN IF sensor_name = "P-101"
       THEN Append(RiskMapFn[sensor_name], "Unauthorized Access")
       ELSE RiskMapFn[sensor_name]
  ELSE << >>

\* SENSOR_RISK_MAP.get(sensor_name, [])
RisksOf(sensor_name) ==
  IF sensor_name \in DOMAIN RiskMapFn THEN RiskMapFn[sensor_name] ELSE << >>

\* SENSOR_STAGE_MAP.get(sensor, 'Unknown')
StageOf(sensor_name) ==
  IF sensor_name \in DOMAIN StageMapFn THEN StageMapFn[sensor_name] ELSE "Unknown"

(* ------------------------------------------------------------------ *)
(* Inputs: sensor frames and label vectors                             *)
(* ------------------------------------------------------------------ *)
\* the sensor columns a frame of the model may carry
FrameColumns == { "LIT-101", "P-101" }

Flat == [r \in 1..NumRows |-> 0]
Spike(i) == [r \in 1..NumRows |-> IF r = i THEN 1 ELSE 0]
\* marker of a column the frame does not have
Absent == << >>

ColumnValues == { Flat, Spike(1), Spike(2) }

\* a frame: every column name to its readings, or to Absent
FrameCols == [FrameColumns -> ColumnValues \cup {Absent}]

NoneFrame == [isNone |-> TRUE, cols |-> [c \in FrameColumns |-> Absent]]
Frames == { [isNone |-> FALSE, cols |-> f] : f \in FrameCols }

Zeros(n) == [r \in 1..n |-> 0]
OneAt(n, S) == [r \in 1..n |-> IF r \in S THEN 1 ELSE 0]

\* label vectors: empty, all negative, positives on rows 1 and 2, and a vector
\* one longer than the frame with a positive beyond the last row
LabelVectors ==
  { << >>, Zeros(NumRows), OneAt(NumRows, {1}), OneAt(NumRows, {2}),
    OneAt(NumRows, {1, 2}), OneAt(NumRows + 1, {1, NumRows + 1}) }

(* ------------------------------------------------------------------ *)
(* risk_mapping.py: RiskMappingAgent, pure parts                       *)
(* ------------------------------------------------------------------ *)
RECURSIVE SumTo(_, _)
\* sum of f[1..n]
SumTo(f, n) == IF n = 0 THEN 0 ELSE f[n] + SumTo(f, n - 1)

ColSum(col) == SumTo(col, Len(col))
ColSumSq(col) == SumTo([r \in 1..Len(col) |-> col[r] * col[r]], Len(col))

\* |x|
Abs(x) == IF x < 0 THEN 0 - x ELSE x

\* p/q > r/s for naturals with q > 0 and s > 0, by comparing the integer parts
\* and then the inverted fractional parts (no product is formed)
RECURSIVE FracGreater(_, _, _, _)
FracGreater(p, q, r, s) ==
  IF p \div q # r \div s THEN p \div q > r \div s
  ELSE IF p % q = 0 THEN FALSE
  ELSE IF r % s = 0 THEN TRUE
  ELSE FracGreater(s, r % s, q, p % q)

\* a * b > c * e for naturals
ProductGreater(a, b, c, e) ==
  IF a = 0 \/ b = 0 THEN FALSE
  ELSE IF c = 0 \/ e = 0 THEN TRUE
  ELSE FracGreater(a, c, e, b)

\* variant of _is_sensor_anomalous that returns z_score >= 2.0
IsSensorAnomalousInclusive(sensor_name, value, sensor_data) ==
  IF sensor_data.cols[sensor_name] = Absent THEN FALSE
  ELSE LET col == sensor_data.cols[sensor_name]
           n == Len(col)
           S == ColSum(col)
           Q == ColSumSq(col)
           d == Abs(n * value[1] - S * value[2])
       IN IF n * Q = S * S THEN FALSE
          ELSE ~ProductGreater(4 * n * (n * Q - S * S), value[2] * value[2],
                               d, d * (n - 1))

\* _is_sensor_anomalous: |value - mean| / std > 2.0 with the sample standard
\* deviation (ddof = 1) of the whole column, FALSE when the column is missing
\* or std == 0.  The value is the fraction value[1] / value[2]; with n rows, S
\* the sum and Q the sum of squares of the column, and d = n*value[1] - S*value[2]:
\*   std = 0            <=>  n*Q = S*S
\*   |v - S/n|/std > 2  <=>  d^2 * (n - 1) > 4 * n * (n*Q - S*S) * value[2]^2
IsSensorAnomalous(sensor_name, value, sensor_data) ==
  IF sensor_data.cols[sensor_name] = Absent THEN FALSE
  ELSE LET col == sensor_data.cols[sensor_name]
           n == Len(col)
           S == ColSum(col)
           Q == ColSumSq(col)
           d == Abs(n * value[1] - S * value[2])
       IN IF n * Q = S * S THEN FALSE
          ELSE ProductGreater(d, d * (n - 1),
                              4 * n * (n * Q - S * S), value[2] * value[2])

\* number of rows of a frame
FrameLen(sensor_data) == NumRows

\* np.where(np.array(predictions) == 1)[0], as 1-based positions in order
RECURSIVE AnomalousIndicesFrom(_, _)
AnomalousIndicesFrom(predictions, i) ==
  IF i > Len(predictions) THEN << >>
  ELSE IF predictions[i] = 1
       THEN <<i>> \o AnomalousIndicesFrom(predictions, i + 1)
       ELSE AnomalousIndicesFrom(predictions, i + 1)

AnomalousIndices(predictions) == AnomalousIndicesFrom(predictions, 1)

\* inner loop of map_anomalies_to_risks for one sample: the sensors of
\* SENSOR_RISK_MAP, in table order, that are in the sample and anomalous
RECURSIVE FlaggedSensorsFrom(_, _, _)
FlaggedSensorsFrom(idx, sensor_data, k) ==
  IF k > Len(SENSOR_RISK_MAP) THEN << >>
  ELSE LET sensor_name == SENSOR_RISK_MAP[k].sensor
           rest == FlaggedSensorsFrom(idx, sensor_data, k + 1)
       IN IF /\ sensor_name \in FrameColumns
             /\ sensor_data.cols[sensor_name] # Absent
             /\ IsSensorAnomalous(sensor_name,
                                  << sensor_data.cols[sensor_name][idx], 1 >>,
                                  sensor_data)
          THEN << <<idx, sensor_name>> >> \o rest
          ELSE rest

\* outer loop: the flagged (sample, sensor) pairs in the order the code meets
\* them; sensor_data.iloc[idx] raises for a position beyond the last row, which
\* ends the loop (raised |-> TRUE) after the pairs of the earlier samples
RECURSIVE FlaggedPairsFrom(_, _, _)
FlaggedPairsFrom(indices, sensor_data, j) ==
  IF j > Len(indices) THEN [pairs |-> << >>, raised |-> FALSE]
  ELSE IF indices[j] > FrameLen(sensor_data)
       THEN [pairs |-> << >>, raised |-> TRUE]
       ELSE LET rest == FlaggedPairsFrom(indices, sensor_data, j + 1)
            IN [pairs |-> FlaggedSensorsFrom(indices[j], sensor_data, 1) \o rest.pairs,
                raised |-> rest.raised]

FlaggedPairs(predictions, sensor_data) ==
  FlaggedPairsFrom(AnomalousIndices(predictions), sensor_data, 1)

(* --- the lifetime counters ---------------------------------------- *)
\* sensor_anomaly_counts: insertion-ordered dict, a sequence of <<sensor, count>>
DictGet(d, k) ==
  IF \E i \in 1..Len(d) : d[i][1] = k
  THEN d[CHOOSE i \in 1..Len(d) : d[i][1] = k][2]
  ELSE 0

\* defaultdict(int)[k] += 1
DictInc(d, k) ==
  IF \E i \in 1..Len(d) : d[i][1] = k
  THEN [i \in 1..Len(d) |-> IF d[i][1] = k THEN <<k, d[i][2] + 1>> ELSE d[i]]
  ELSE Append(d, <<k, 1>>)

\* risk_history: defaultdict of defaultdict(int), kept as the set of
\* <<risk, sensor, count>> with count > 0 (an absent key reads as 0)
HistGet(h, risk, sensor_name) ==
  IF \E t \in h : t[1] = risk /\ t[2] = sensor_name
  THEN (CHOOSE t \in h : t[1] = risk /\ t[2] = sensor_name)[3]
  ELSE 0

\* self.risk_history[risk][sensor_name] += 1
HistInc(h, risk, sensor_name) ==
  { t \in h : ~(t[1] = risk /\ t[2] = sensor_name) }
    \cup { <<risk, sensor_name, HistGet(h, risk, sensor_name) + 1>> }

\* variant of the loop over the risks that counts the first risk only
HistIncFirst(h, risks, sensor_name, k) ==
  IF Len(risks) = 0 THEN h ELSE HistInc(h, risks[1], sensor_name)

RECURSIVE HistIncAll(_, _, _, _)
\* for risk in risks: self.risk_history[risk][sensor_name] += 1
HistIncAll(h, risks, sensor_name, k) ==
  IF k > Len(risks) THEN h
  ELSE HistIncAll(HistInc(h, risks[k], sensor_name), risks, sensor_name, k + 1)

\* variant of the branch body that leaves total_anomalies as it is
ApplyPairNoTotal(hist, sensor_name) ==
  [sensor_anomaly_counts |-> DictInc(hist.sensor_anomaly_counts, sensor_name),
   total_anomalies |-> hist.total_anomalies,
   risk_history |-> HistIncAll(hist.risk_history, RisksOf(sensor_name),
                               sensor_name, 1)]

\* body of the `if self._is_sensor_anomalous(...)` branch on the lifetime state
ApplyPair(hist, sensor_name) ==
  [sensor_anomaly_counts |-> DictInc(hist.sensor_anomaly_counts, sensor_name),
   total_anomalies |-> hist.total_anomalies + 1,
   risk_history |-> HistIncAll(hist.risk_history, RisksOf(sensor_name),
                               sensor_name, 1)]

RECURSIVE ApplyPairs(_, _, _)
ApplyPairs(hist, pairs, k) ==
  IF k > Len(pairs) THEN hist
  ELSE ApplyPairs(ApplyPair(hist, pairs[k][2]), pairs, k + 1)

\* __init__ / reset_history
EmptyHistory ==
  [sensor_anomaly_counts |-> << >>, total_anomalies |-> 0, risk_history |-> {}]

(* --- the per-call structures -------------------------------------- *)
InSeq(x, sq) == \E i \in 1..Len(sq) : sq[i] = x

RECURSIVE ContributionsFrom(_, _, _)
\* risk_contributions[risk]: the sensors appended for this risk, in order
ContributionsFrom(risk, pairs, k) ==
  IF k > Len(pairs) THEN << >>
  ELSE IF InSeq(risk, RisksOf(pairs[k][2]))
       THEN <<pairs[k][2]>> \o ContributionsFrom(risk, pairs, k + 1)
       ELSE ContributionsFrom(risk, pairs, k + 1)

RiskContributions(pairs) ==
  [risk \in RiskSet |-> ContributionsFrom(risk, pairs, 1)]

RECURSIVE TotalLen(_, _)
TotalLen(rc, k) ==
  IF k = 0 THEN 0 ELSE Len(rc[RISK_CATEGORIES[k]]) + TotalLen(rc, k - 1)

\* round(count / total, 3) in thousandths (ties, which only occur at exactly
\* representable quotients, go to the even digit)
Round3(count, total) ==
  LET q == (1000 * count) \div total
      r == (1000 * count) % total
  IN IF 2 * r < total THEN q
     ELSE IF 2 * r > total THEN q + 1
     ELSE IF q % 2 = 0 THEN q ELSE q + 1

\* _calculate_risk_distribution, values in thousandths
CalculateRiskDistribution(rc) ==
  LET total_contributions == TotalLen(rc, Len(RISK_CATEGORIES))
  IN IF total_contributions = 0
     THEN [risk \in RiskSet |-> 0]
     ELSE [risk \in RiskSet |-> Round3(Len(rc[risk]), total_contributions)]

MaxOf(S) == CHOOSE m \in S : \A x \in S : x <= m

\* max(distribution, key=distribution.get): first key in dict order with the
\* greatest value
ArgMaxFirst(distribution) ==
  LET m == MaxOf({ distribution[r] : r \in RiskSet })
      i == CHOOSE k \in 1..Len(RISK_CATEGORIES) :
             /\ distribution[RISK_CATEGORIES[k]] = m
             /\ \A j \in 1..(k - 1) : distribution[RISK_CATEGORIES[j]] # m
  IN RISK_CATEGORIES[i]

SeqToSet(sq) == { sq[i] : i \in 1..Len(sq) }

\* severity of the majority risk from its share (thousandths)
MajoritySeverity(percentage) ==
  IF percentage >= 400 THEN "Critical"
  ELSE IF percentage >= 250 THEN "High"
  ELSE IF percentage >= 150 THEN "Medium"
  ELSE "Low"

\* _generate_risk_description: the template chosen (the stage list that the
\* code joins into it is affected_stages)
RiskDescription(risk_name) ==
  CASE risk_name = "Water Overflow" -> "Tank level sensors showing overflow conditions"
    [] risk_name = "Pump Damage" -> "Pump or flow sensors indicating damage risk"
    [] risk_name = "Water Quality Degradation" -> "Water quality sensors detecting contamination"
    [] risk_name = "Unsafe Chemical Dosing" -> "Chemical dosing sensors showing unsafe levels"
    [] risk_name = "Process Interruption" -> "Critical process sensors indicating potential shutdown"
    [] risk_name = "Unauthorized Access" -> "Security breach detected affecting sensors"
    [] risk_name = "Data Tampering" -> "Sensor data integrity compromised"
    [] risk_name = "Denial of Service" -> "Communication loss with sensors"
    [] OTHER -> "Risk detected"

NoMajority(description) ==
  [category |-> "None", percentage |-> 0, count |-> 0, affected_sensors |-> {},
   affected_stages |-> {}, severity |-> "Low", description |-> description]

\* _identify_majority_risk; percentage is kept in thousandths (tenths of a
\* percent), affected_sensors as a set (the code cuts the list at 5 sensors)
IdentifyMajorityRisk(distribution, rc) ==
  IF MaxOf({ distribution[r] : r \in RiskSet }) = 0
  THEN NoMajority("No dominant risk detected")
  ELSE LET majority_risk_name == ArgMaxFirst(distribution)
           percentage == distribution[majority_risk_name]
           affected_sensors == SeqToSet(rc[majority_risk_name])
       IN [category |-> majority_risk_name,
           percentage |-> percentage,
           count |-> Len(rc[majority_risk_name]),
           affected_sensors |-> affected_sensors,
           affected_stages |-> { StageOf(s) : s \in affected_sensors },
           severity |-> MajoritySeverity(percentage),
           description |-> RiskDescription(majority_risk_name)]

CountIn(sq, x) == Cardinality({ i \in 1..Len(sq) : sq[i] = x })

\* _get_sensor_contributions: per contributing sensor its risks, the sum of
\* its per-risk counts, its primary risk and its stage
GetSensorContributions(pairs) ==
  LET sensors == { pairs[i][2] : i \in 1..Len(pairs) }
  IN { [sensor |-> s,
        risks |-> RisksOf(s),
        anomaly_count |-> CountIn([i \in 1..Len(pairs) |-> pairs[i][2]], s)
                            * Len(RisksOf(s)),
        primary_risk |-> RisksOf(s)[1],
        stage |-> StageOf(s)] : s \in sensors }

\* _get_risk_details: per category its total and its number of distinct sensors
GetRiskDetails(rc) ==
  [risk \in RiskSet |->
     [total |-> Len(rc[risk]), unique_sensors |-> Cardinality(SeqToSet(rc[risk]))]]

\* variant of _empty_risk_mapping whose distribution has no category
EmptyRiskMappingBare ==
  [distribution |-> [risk \in {} |-> 0],
   majority_risk |-> NoMajority("No anomalies detected"),
   sensor_contributions |-> {},
   risk_details |-> [risk \in RiskSet |-> [total |-> 0, unique_sensors |-> 0]],
   total_anomalies_analyzed |-> 0]

\* _empty_risk_mapping
EmptyRiskMapping ==
  [distribution |-> [risk \in RiskSet |-> 0],
   majority_risk |-> NoMajority("No anomalies detected"),
   sensor_contributions |-> {},
   risk_details |-> [risk \in RiskSet |-> [total |-> 0, unique_sensors |-> 0]],
   total_anomalies_analyzed |-> 0]

\* map_anomalies_to_risks: the returned mapping and the lifetime state after
\* the call.  anomaly_data = [predictions, sensor_data]
MapAnomaliesToRisks(hist, anomaly_data) ==
  LET predictions == anomaly_data.predictions
      sensor_data == anomaly_data.sensor_data
      anomalous_indices == AnomalousIndices(predictions)
  IN IF sensor_data.isNone \/ Len(predictions) = 0
     THEN [result |-> EmptyRiskMapping, hist |-> hist]
     ELSE IF Len(anomalous_indices) = 0
     THEN [result |-> EmptyRiskMapping, hist |-> hist]
     ELSE LET fp == FlaggedPairs(predictions, sensor_data)
              rc == RiskContributions(fp.pairs)
              risk_distribution == CalculateRiskDistribution(rc)
              after == ApplyPairs(hist, fp.pairs, 1)
          IN IF fp.raised
             THEN [result |-> EmptyRiskMapping, hist |-> after]
             ELSE [result |->
                     [distribution |-> risk_distribution,
                      majority_risk |-> IdentifyMajorityRisk(risk_distribution, rc),
                      sensor_contributions |-> GetSensorContributions(fp.pairs),
                      risk_details |-> GetRiskDetails(rc),
                      total_anomalies_analyzed |-> Len(anomalous_indices)],
                   hist |-> after]

RECURSIVE SortedByCount(_)
\* sorted(items, key=count, reverse=True): stable, so equal counts keep
\* insertion order
SortedByCount(d) ==
  IF Len(d) = 0 THEN << >>
  ELSE LET m == MaxOf({ d[i][2] : i \in 1..Len(d) })
           k == CHOOSE i \in 1..Len(d) :
                  d[i][2] = m /\ \A j \in 1..(i - 1) : d[j][2] # m
       IN <<d[k]>> \o SortedByCount(SubSeq(d, 1, k - 1) \o SubSeq(d, k + 1, Len(d)))

TopN == 10

RECURSIVE SumCounts(_)
\* sum(self.risk_history[risk].values()) over the entries of one risk
SumCounts(S) ==
  IF S = {} THEN 0
  ELSE LET t == CHOOSE x \in S : TRUE IN t[3] + SumCounts(S \ {t})

\* get_historical_risk_summary
GetHistoricalRiskSummary(hist) ==
  LET sorted_sensors == SortedByCount(hist.sensor_anomaly_counts)
      top == SubSeq(sorted_sensors, 1,
                    IF Len(sorted_sensors) < TopN THEN Len(sorted_sensors) ELSE TopN)
  IN [total_anomalies |-> hist.total_anomalies,
      risk_counts |->
        [risk \in RiskSet |->
           SumCounts({ t \in hist.risk_history : t[1] = risk })],
      top_affected_sensors |->
        [i \in 1..Len(top) |->
           [sensor |-> top[i][1], count |-> top[i][2], stage |-> StageOf(top[i][1])]]]


(* ------------------------------------------------------------------ *)
(* agents.py: FaultDetectionAgent.detect result                        *)
(* ------------------------------------------------------------------ *)
\* keys of the dict detect() returns
DetectKeys ==
  { "anomaly_detected", "attack_probability", "predictions", "confidence",
    "num_anomalies", "anomaly_rate" }

CountOnes(predictions) ==
  Cardinality({ i \in 1..Len(predictions) : predictions[i] = 1 })

\* the dict detect() builds from the model's outputs: y_pred (0/1 labels) and
\* y_prob (attack probabilities, integer percents); anomaly_rate is the exact
\* fraction num_anomalies / len, kept as <<numerator, denominator>>
DetectResult(y_pred, y_prob, keys) ==
  [anomaly_detected |-> [i \in 1..Len(y_pred) |-> y_pred[i] = 1],
   attack_probability |-> y_prob,
   predictions |-> y_pred,
   confidence |-> [i \in 1..Len(y_prob) |->
                     IF y_prob[i] >= 50 THEN y_prob[i] ELSE 100 - y_prob[i]],
   num_anomalies |-> CountOnes(y_pred),
   anomaly_rate |-> <<CountOnes(y_pred), Len(y_pred)>>,
   keys |-> keys]

(* ------------------------------------------------------------------ *)
(* agents.py: CyberRiskAssessmentAgent                                 *)
(* ------------------------------------------------------------------ *)
TemporalMinSamples == 10
TemporalRunScale == 10

\* the loop of _analyze_temporal_pattern keeps two counters.  After pass i
\* consecutive_count is the length of the run of set flags that ends at i,
\* i.e. i minus the index of the last unset flag up to i (0 if there is none)
ConsecutiveCountAfter(anomaly_flags, i) ==
  i - MaxOf({0} \cup { j \in 1..i : ~anomaly_flags[j] })

\* max_consecutive at the end of the loop: the largest value consecutive_count
\* has taken
MaxConsecutive(anomaly_flags) ==
  MaxOf({0} \cup { ConsecutiveCountAfter(anomaly_flags, i) :
                     i \in 1..Len(anomaly_flags) })

\* _analyze_temporal_pattern, in tenths: min(1.0, max_consecutive / 10.0)
AnalyzeTemporalPattern(anomaly_flags) ==
  IF Len(anomaly_flags) < TemporalMinSamples THEN 0
  ELSE LET m == MaxConsecutive(anomaly_flags)
       IN IF m >= TemporalRunScale THEN 10 ELSE (10 * m) \div TemporalRunScale

\* _calculate_cyber_risk_score: min(1.0, 0.4*avg_prob + 0.3*rate + 0.3*temporal)
\* as <<numerator, denominator>>; avg_prob = P/(100 n), rate = k/n,
\* temporal = t/10, so the sum is (4P + 300k + 30tn) / (1000 n)
CalculateCyberRiskScore(P, k, n, t) ==
  LET num == 4 * P + 300 * k + 30 * t * n
      den == 1000 * n
  IN IF num > den THEN <<den, den>> ELSE <<num, den>>

\* variant of _classify_risk_level whose comparisons include the threshold
CyberClassifyRiskLevelInclusive(score) ==
  IF 10 * score[1] <= 3 * score[2] THEN "low"
  ELSE IF 10 * score[1] <= 6 * score[2] THEN "medium"
  ELSE IF 100 * score[1] <= 85 * score[2] THEN "high"
  ELSE "critical"

\* CyberRiskAssessmentAgent._classify_risk_level with prob_thresholds
\* low 0.3, medium 0.6, high 0.85
CyberClassifyRiskLevel(score) ==
  IF 10 * score[1] < 3 * score[2] THEN "low"
  ELSE IF 10 * score[1] < 6 * score[2] THEN "medium"
  ELSE IF 100 * score[1] < 85 * score[2] THEN "high"
  ELSE "critical"

\* variant of _identify_attack_pattern that tests the probability rule first
IdentifyAttackPatternProbFirst(anomaly_flags, attack_probs) ==
  LET n == Len(anomaly_flags)
      pos == { i \in 1..n : anomaly_flags[i] }
      k == Cardinality(pos)
      Ppos == SumTo([i \in 1..n |-> IF anomaly_flags[i] THEN attack_probs[i] ELSE 0], n)
  IN IF k > 0 /\ Ppos > 90 * k THEN "Targeted Attack"
     ELSE IF 10 * k > 8 * n THEN "Persistent Attack"
     ELSE IF 2 * k > n THEN "Intermittent Attack"
     ELSE IF 10 * k > n THEN "Sporadic Anomalies"
     ELSE "Normal Operation"

\* _identify_attack_pattern
IdentifyAttackPattern(anomaly_flags, attack_probs) ==
  LET n == Len(anomaly_flags)
      pos == { i \in 1..n : anomaly_flags[i] }
      k == Cardinality(pos)
      Ppos == SumTo([i \in 1..n |-> IF anomaly_flags[i] THEN attack_probs[i] ELSE 0], n)
  IN IF 10 * k > 8 * n THEN "Persistent Attack"
     ELSE IF 2 * k > n THEN "Intermittent Attack"
     ELSE IF k > 0 /\ Ppos > 90 * k THEN "Targeted Attack"
     ELSE IF 10 * k > n THEN "Sporadic Anomalies"
     ELSE "Normal Operation"

\* _generate_threat_assessment: the template chosen by the level
GenerateThreatAssessment(risk_level) ==
  CASE risk_level = "low" -> "Minimal cyber threat detected."
    [] risk_level = "medium" -> "Moderate cyber risk."
    [] risk_level = "high" -> "High cyber threat level!"
    [] risk_level = "critical" -> "CRITICAL CYBER ATTACK!"
    [] OTHER -> "Unknown threat level"

\* a timestamps argument: None, or a series of the given length
NoTimestamps == [isNone |-> TRUE, len |-> 0]
Timestamps(n) == [isNone |-> FALSE, len |-> n]

\* CyberRiskAssessmentAgent.assess_risk (for a batch of at least one sample)
CyberAssessRisk(detection_results, timestamps) ==
  LET attack_probs == detection_results.attack_probability
      anomaly_flags == detection_results.anomaly_detected
      n == Len(anomaly_flags)
      P == SumTo(attack_probs, Len(attack_probs))
      num_anomalies == Cardinality({ i \in 1..n : anomaly_flags[i] })
      temporal_risk_score ==
        IF ~timestamps.isNone /\ timestamps.len > 1
        THEN AnalyzeTemporalPattern(anomaly_flags) ELSE 0
      cyber_risk_score ==
        CalculateCyberRiskScore(P, num_anomalies, n, temporal_risk_score)
      risk_level == CyberClassifyRiskLevel(cyber_risk_score)
  IN [cyber_risk_score |-> cyber_risk_score,
      risk_level |-> risk_level,
      avg_attack_probability |-> <<P, 100 * n>>,
      max_attack_probability |-> MaxOf({ attack_probs[i] : i \in 1..Len(attack_probs) }),
      anomaly_count |-> num_anomalies,
      anomaly_rate |-> <<num_anomalies, n>>,
      temporal_risk |-> temporal_risk_score,
      attack_signature |-> IdentifyAttackPattern(anomaly_flags, attack_probs),
      threat_assessment |-> GenerateThreatAssessment(risk_level)]

(* ------------------------------------------------------------------ *)
(* agents.py: OperationalRiskAssessmentAgent                           *)
(* ------------------------------------------------------------------ *)
\* self.risk_matrix, in tenths; 0 marks a missing key
RiskMatrix(likelihood, impact) ==
  CASE likelihood = "low" /\ impact = "low" -> 1
    [] likelihood = "low" /\ impact = "medium" -> 2
    [] likelihood = "low" /\ impact = "high" -> 4
    [] likelihood = "medium" /\ impact = "low" -> 3
    [] likelihood = "medium" /\ impact = "medium" -> 5
    [] likelihood = "medium" /\ impact = "high" -> 7
    [] likelihood = "high" /\ impact = "low" -> 5
    [] likelihood = "high" /\ impact = "medium" -> 7
    [] likelihood = "high" /\ impact = "high" -> 9
    [] OTHER -> 0

\* _assess_impact; anomaly_rate = <<k, n>>
AssessImpact(anomaly_rate, num_anomalies) ==
  IF 10 * anomaly_rate[1] > 7 * anomaly_rate[2] \/ num_anomalies > 1000 THEN "high"
  ELSE IF 10 * anomaly_rate[1] > 3 * anomaly_rate[2] \/ num_anomalies > 100 THEN "medium"
  ELSE "low"

\* variant of _calculate_operational_risk whose likelihood_map has no entry
\* for 'critical'
CalculateOperationalRiskUnmapped(likelihood, impact) ==
  LET normalized_likelihood ==
        CASE likelihood = "low" -> "low"
          [] likelihood = "medium" -> "medium"
          [] likelihood = "high" -> "high"
          [] OTHER -> "medium"
      v == RiskMatrix(normalized_likelihood, impact)
  IN IF v = 0 THEN 5 ELSE v

\* _calculate_operational_risk, in tenths
CalculateOperationalRisk(likelihood, impact) ==
  LET normalized_likelihood ==
        CASE likelihood = "low" -> "low"
          [] likelihood = "medium" -> "medium"
          [] likelihood = "high" -> "high"
          [] likelihood = "critical" -> "high"
          [] OTHER -> "medium"
      v == RiskMatrix(normalized_likelihood, impact)
  IN IF v = 0 THEN 5 ELSE v

\* _assess_fault_severity: combined = (score/10 + k/n) / 2, so
\* combined > c/10  <=>  score*n + 10*k > 2*c*n
AssessFaultSeverity(risk_score, anomaly_rate) ==
  LET c == risk_score * anomaly_rate[2] + 10 * anomaly_rate[1]
      n == anomaly_rate[2]
  IN IF c > 16 * n THEN "Critical"
     ELSE IF c > 12 * n THEN "High"
     ELSE IF c > 6 * n THEN "Medium"
     ELSE "Low"

\* _identify_affected_systems
IdentifyAffectedSystems(num_anomalies, anomaly_rate) ==
  LET affected ==
        (IF 2 * anomaly_rate[1] > anomaly_rate[2]
         THEN << "Primary Treatment", "Distribution System" >> ELSE << >>)
        \o (IF num_anomalies > 500 THEN << "Control System" >> ELSE << >>)
        \o (IF 10 * anomaly_rate[1] > 8 * anomaly_rate[2]
            THEN << "Safety Systems" >> ELSE << >>)
  IN IF Len(affected) > 0 THEN affected ELSE << "Monitoring Systems" >>

\* variant of _estimate_downtime whose table is keyed by (impact, severity)
EstimateDowntimeSwapped(severity, impact) ==
  CASE impact = "Critical" /\ severity = "high" -> 240
    [] impact = "Critical" /\ severity = "medium" -> 120
    [] impact = "High" /\ severity = "high" -> 120
    [] impact = "High" /\ severity = "medium" -> 60
    [] impact = "Medium" /\ severity = "high" -> 60
    [] impact = "Medium" /\ severity = "medium" -> 30
    [] OTHER -> 15

\* _estimate_downtime
EstimateDowntime(severity, impact) ==
  CASE severity = "Critical" /\ impact = "high" -> 240
    [] severity = "Critical" /\ impact = "medium" -> 120
    [] severity = "High" /\ impact = "high" -> 120
    [] severity = "High" /\ impact = "medium" -> 60
    [] severity = "Medium" /\ impact = "high" -> 60
    [] severity = "Medium" /\ impact = "medium" -> 30
    [] OTHER -> 15

\* _assess_safety_impact (score in tenths)
AssessSafetyImpact(risk_score) ==
  IF risk_score > 8 THEN "Severe - Immediate safety concerns"
  ELSE IF risk_score > 6 THEN "Moderate - Safety monitoring required"
  ELSE IF risk_score > 3 THEN "Minor - Standard safety protocols"
  ELSE "Minimal - No safety concerns"

\* _determine_priority (score in tenths)
DeterminePriority(risk_score, severity) ==
  IF severity = "Critical" \/ risk_score > 8 THEN 1
  ELSE IF severity = "High" \/ risk_score > 6 THEN 2
  ELSE IF severity = "Medium" \/ risk_score > 4 THEN 3
  ELSE 4

\* OperationalRiskAssessmentAgent._classify_risk_level (score in tenths)
OperationalClassifyRiskLevel(score) ==
  IF 10 * score < 30 THEN "low"
  ELSE IF 10 * score < 60 THEN "medium"
  ELSE IF 10 * score < 85 THEN "high"
  ELSE "critical"

\* OperationalRiskAssessmentAgent.assess_risk
OperationalAssessRisk(detection_results, cyber_risk) ==
  LET anomaly_rate == detection_results.anomaly_rate
      num_anomalies == detection_results.num_anomalies
      impact_level == AssessImpact(anomaly_rate, num_anomalies)
      likelihood == cyber_risk.risk_level
      op_risk_score == CalculateOperationalRisk(likelihood, impact_level)
      fault_severity == AssessFaultSeverity(op_risk_score, anomaly_rate)
  IN [operational_risk_score |-> op_risk_score,
      risk_level |-> OperationalClassifyRiskLevel(op_risk_score),
      fault_severity |-> fault_severity,
      impact_level |-> impact_level,
      likelihood |-> likelihood,
      affected_systems |-> IdentifyAffectedSystems(num_anomalies, anomaly_rate),
      estimated_downtime_minutes |-> EstimateDowntime(fault_severity, impact_level),
      safety_impact |-> AssessSafetyImpact(op_risk_score),
      performance_degradation |-> anomaly_rate,
      mitigation_priority |-> DeterminePriority(op_risk_score, fault_severity)]

(* ------------------------------------------------------------------ *)
(* agents.py: DecisionMakingAgent                                      *)
(* ------------------------------------------------------------------ *)
\* self.action_library
ActionLibrary(tier) ==
  CASE tier = "critical_cyber" ->
         << "Isolate affected network segments", "Activate incident response team",
            "Switch to backup control system", "Initiate emergency shutdown protocol",
            "Preserve logs for forensic analysis" >>
    [] tier = "high_cyber" ->
         << "Increase monitoring frequency", "Restrict remote access",
            "Verify actuator commands", "Alert security operations center" >>
    [] tier = "critical_operational" ->
         << "Emergency shutdown of affected stages", "Activate backup water supply",
            "Notify emergency response team", "Implement manual override controls",
            "Evacuate non-essential personnel" >>
    [] tier = "high_operational" ->
         << "Reduce process throughput", "Activate redundant systems",
            "Increase operator supervision", "Prepare for manual intervention" >>
    [] tier = "medium_risk" ->
         << "Continue enhanced monitoring", "Log anomalies for analysis",
            "Notify maintenance team", "Schedule system inspection" >>
    [] tier = "low_risk" ->
         << "Standard monitoring protocols", "Document anomaly in system logs" >>

\* self.stage_actions
StageActions(stage) ==
  CASE stage = "P1" -> << "Close inlet valve MV101", "Stop pumps P101/P102" >>
    [] stage = "P2" -> << "Isolate chemical dosing", "Stop dosing pumps" >>
    [] stage = "P3" -> << "Bypass ultrafiltration", "Activate backwash" >>
    [] stage = "P4" -> << "Switch to backup UV system", "Adjust dechlorination" >>
    [] stage = "P5" -> << "Reduce RO pressure", "Activate membrane protection" >>
    [] stage = "P6" -> << "Close distribution valves", "Activate storage tanks" >>

\* risk_scores.get(level, 0)
RiskRank(level) ==
  CASE level = "low" -> 1
    [] level = "medium" -> 2
    [] level = "high" -> 3
    [] level = "critical" -> 4
    [] OTHER -> 0

\* _identify_primary_threat
IdentifyPrimaryThreat(cyber_risk, operational_risk) ==
  IF RiskRank(cyber_risk) > RiskRank(operational_risk) THEN "Cyber Attack"
  ELSE IF RiskRank(operational_risk) > RiskRank(cyber_risk) THEN "Operational Failure"
  ELSE "Combined Cyber-Physical Threat"

RECURSIVE Dedup(_, _)
\* list(dict.fromkeys(actions)): first occurrences, in order
Dedup(actions, k) ==
  IF k > Len(actions) THEN << >>
  ELSE IF \E j \in 1..(k - 1) : actions[j] = actions[k]
       THEN Dedup(actions, k + 1)
       ELSE <<actions[k]>> \o Dedup(actions, k + 1)

\* variant of _select_actions that extends with the operational tier first
SelectActionsOperationalFirst(cyber_risk, operational_risk, fault_severity) ==
  LET cyber_part ==
        IF cyber_risk = "critical" THEN ActionLibrary("critical_cyber")
        ELSE IF cyber_risk = "high" THEN ActionLibrary("high_cyber")
        ELSE << >>
      op_part ==
        IF operational_risk = "critical" \/ fault_severity = "Critical"
        THEN ActionLibrary("critical_operational")
        ELSE IF operational_risk = "high" \/ fault_severity = "High"
        THEN ActionLibrary("high_operational")
        ELSE IF operational_risk = "medium"
        THEN ActionLibrary("medium_risk")
        ELSE ActionLibrary("low_risk")
  IN Dedup(op_part \o cyber_part, 1)

\* _select_actions
SelectActions(cyber_risk, operational_risk, fault_severity) ==
  LET cyber_part ==
        IF cyber_risk = "critical" THEN ActionLibrary("critical_cyber")
        ELSE IF cyber_risk = "high" THEN ActionLibrary("high_cyber")
        ELSE << >>
      op_part ==
        IF operational_risk = "critical" \/ fault_severity = "Critical"
        THEN ActionLibrary("critical_operational")
        ELSE IF operational_risk = "high" \/ fault_severity = "High"
        THEN ActionLibrary("high_operational")
        ELSE IF operational_risk = "medium"
        THEN ActionLibrary("medium_risk")
        ELSE ActionLibrary("low_risk")
  IN Dedup(cyber_part \o op_part, 1)

\* _get_stage_actions
GetStageActions(affected_systems) ==
  (IF InSeq("Primary Treatment", affected_systems) THEN StageActions("P2") ELSE << >>)
  \o (IF InSeq("Distribution System", affected_systems) THEN StageActions("P6") ELSE << >>)
  \o (IF InSeq("Control System", affected_systems)
      THEN << "Switch to manual control mode" >> ELSE << >>)
  \o (IF InSeq("Safety Systems", affected_systems)
      THEN << "Activate emergency safety protocols" >> ELSE << >>)

\* actions[a:b] of Python (0-based, end exclusive, clipped to the list)
Slice(actions, a, b) ==
  LET hi == IF b < Len(actions) THEN b ELSE Len(actions)
  IN IF a >= hi THEN << >> ELSE SubSeq(actions, a + 1, hi)

\* variant of _prioritize_actions whose short-term bucket takes two actions
PrioritizeActionsShort(actions, priority) ==
  LET n == Len(actions)
  IN IF priority = 1
     THEN [immediate |-> IF n >= 3 THEN Slice(actions, 0, 3) ELSE actions,
           short_term |-> IF n > 3 THEN Slice(actions, 3, 5) ELSE << >>,
           ongoing |-> IF n > 6 THEN Slice(actions, 6, n) ELSE << >>]
     ELSE IF priority = 2
     THEN [immediate |-> IF n >= 2 THEN Slice(actions, 0, 2) ELSE actions,
           short_term |-> IF n > 2 THEN Slice(actions, 2, 4) ELSE << >>,
           ongoing |-> IF n > 5 THEN Slice(actions, 5, n) ELSE << >>]
     ELSE [immediate |-> IF n > 0 THEN Slice(actions, 0, 1) ELSE << >>,
           short_term |-> IF n > 1 THEN Slice(actions, 1, 3) ELSE << >>,
           ongoing |-> IF n > 4 THEN Slice(actions, 4, n) ELSE << >>]

\* _prioritize_actions
PrioritizeActions(actions, priority) ==
  LET n == Len(actions)
  IN IF priority = 1
     THEN [immediate |-> IF n >= 3 THEN Slice(actions, 0, 3) ELSE actions,
           short_term |-> IF n > 3 THEN Slice(actions, 3, 6) ELSE << >>,
           ongoing |-> IF n > 6 THEN Slice(actions, 6, n) ELSE << >>]
     ELSE IF priority = 2
     THEN [immediate |-> IF n >= 2 THEN Slice(actions, 0, 2) ELSE actions,
           short_term |-> IF n > 2 THEN Slice(actions, 2, 5) ELSE << >>,
           ongoing |-> IF n > 5 THEN Slice(actions, 5, n) ELSE << >>]
     ELSE [immediate |-> IF n > 0 THEN Slice(actions, 0, 1) ELSE << >>,
           short_term |-> IF n > 1 THEN Slice(actions, 1, 4) ELSE << >>,
           ongoing |-> IF n > 4 THEN Slice(actions, 4, n) ELSE << >>]

\* _calculate_response_timeline
CalculateResponseTimeline(cyber_risk, operational_risk, fault_severity) ==
  IF cyber_risk = "critical" \/ operational_risk = "critical"
  THEN "IMMEDIATE (0-5 minutes)"
  ELSE IF cyber_risk = "high" \/ operational_risk = "high" \/ fault_severity = "High"
  THEN "URGENT (5-15 minutes)"
  ELSE IF cyber_risk = "medium" \/ operational_risk = "medium"
  THEN "PRIORITY (15-60 minutes)"
  ELSE "STANDARD (1-24 hours)"

\* variant of _requires_human_approval that asks for both levels to be critical
RequiresHumanApprovalBoth(cyber_risk, operational_risk) ==
  cyber_risk = "critical" /\ operational_risk = "critical"

\* _requires_human_approval
RequiresHumanApproval(cyber_risk, operational_risk) ==
  cyber_risk = "critical" \/ operational_risk = "critical"

\* _get_emergency_contacts
GetEmergencyContacts(primary_threat) ==
  CASE primary_threat = "Cyber Attack" ->
         << "Security Operations Center", "IT Incident Response Team", "Plant Manager" >>
    [] primary_threat = "Operational Failure" ->
         << "Plant Engineer", "Maintenance Team", "Safety Officer" >>
    [] primary_threat = "Combined Cyber-Physical Threat" ->
         << "Emergency Response Team", "Plant Manager", "Security Team", "Safety Officer" >>
    [] OTHER -> << "Plant Manager" >>

\* _generate_rationale: which parts the narrative cites
GenerateRationale(primary_threat, cyber_assessment, operational_assessment) ==
  [threat |-> primary_threat,
   cites_signature |-> cyber_assessment.risk_level \in {"high", "critical"},
   cites_severity |-> operational_assessment.risk_level \in {"high", "critical"},
   recovery |-> operational_assessment.estimated_downtime_minutes]

\* DecisionMakingAgent.decide
Decide(cyber_assessment, operational_assessment) ==
  LET cyber_risk == cyber_assessment.risk_level
      operational_risk == operational_assessment.risk_level
      fault_severity == operational_assessment.fault_severity
      affected_systems == operational_assessment.affected_systems
      primary_threat == IdentifyPrimaryThreat(cyber_risk, operational_risk)
      recommended_actions == SelectActions(cyber_risk, operational_risk, fault_severity)
  IN [primary_threat |-> primary_threat,
      recommended_actions |-> recommended_actions,
      stage_specific_actions |-> GetStageActions(affected_systems),
      action_priority |-> PrioritizeActions(recommended_actions,
                                            operational_assessment.mitigation_priority),
      response_timeline |-> CalculateResponseTimeline(cyber_risk, operational_risk,
                                                      fault_severity),
      requires_human_approval |-> RequiresHumanApproval(cyber_risk, operational_risk),
      estimated_resolution_time |-> operational_assessment.estimated_downtime_minutes,
      decision_rationale |-> GenerateRationale(primary_threat, cyber_assessment,
                                               operational_assessment),
      emergency_contacts |-> GetEmergencyContacts(primary_threat)]

(* ------------------------------------------------------------------ *)
(* State                                                               *)
(* ------------------------------------------------------------------ *)
VARIABLES
  \* RiskMappingAgent fields
  risk_history, sensor_anomaly_counts, total_anomalies,
  \* the last RiskMappingAgent call (and the kind of the one before it) and
  \* what the calls returned
  last_call, map_result, summary, map_calls,
  \* CoordinationAgent fields
  agents, execution_log, system_state,
  \* the process_data call in progress: its position and its locals
  pc, raw_data, timestamps, detection_results, cyber_assessment,
  operational_assessment, decisions, risk_mapping_results,
  \* the collaborator calls made by the process_data call in progress
  stage_calls,
  \* what the last process_data call returned, and the calls started so far
  result, calls,
  \* threads sharing the coordinator and its RiskMappingAgent: the position of
  \* each thread, the operation it runs (or ran last), the operations begun
  th_pc, th_op, th_started,
  \* the locals of a thread inside map_anomalies_to_risks: the flagged sensors
  \* still to count, the index of the risk being counted, the value loaded by
  \* the += in progress
  th_pairs, th_k, th_reg,
  \* the summary a thread inside get_historical_risk_summary has built so far,
  \* and the lifetime states that existed while that call was in flight
  th_summary, th_seen,
  \* direct calls of the scoring agents and of the pure methods of the
  \* mapper: the last call with its arguments, and what it returned
  sc_call, sc_result

mapperVars == << risk_history, sensor_anomaly_counts, total_anomalies,
                 last_call, map_result, summary, map_calls >>

coordVars == << agents, execution_log, system_state >>

callVars == << pc, raw_data, timestamps, detection_results, cyber_assessment,
               operational_assessment, decisions, risk_mapping_results,
               stage_calls, result, calls >>

localVars == << raw_data, timestamps, detection_results, cyber_assessment,
                operational_assessment, decisions, risk_mapping_results >>

threadVars == << th_pc, th_op, th_started, th_pairs, th_k, th_reg,
                 th_summary, th_seen >>

scoreVars == << sc_call, sc_result >>

VARIABLES
  \* app.py globals of the simulation: the running flag, the last thread
  \* created (0 for None), and the position of every simulation_loop thread
  \* created so far
  simulation_running, simulation_thread, loop_pc,
  \* data_simulator.current_index and data_simulator.batch_size
  current_index, batch_size,
  \* the last message emitted on the socket
  emitted

simVars == << simulation_running, simulation_thread, loop_pc, current_index,
              batch_size, emitted >>

vars == << mapperVars, coordVars, callVars, threadVars, scoreVars, simVars >>

Hist ==
  [sensor_anomaly_counts |-> sensor_anomaly_counts,
   total_anomalies |-> total_anomalies,
   risk_history |-> risk_history]

NoData == [predictions |-> << >>, sensor_data |-> NoneFrame]

MapperInit ==
  /\ risk_history = EmptyHistory.risk_history
  /\ sensor_anomaly_counts = EmptyHistory.sensor_anomaly_counts
  /\ total_anomalies = EmptyHistory.total_anomalies
  /\ last_call = [op |-> "none", prev |-> "none", anomaly_data |-> NoData]
  /\ map_result = EmptyRiskMapping
  /\ summary = GetHistoricalRiskSummary(EmptyHistory)
  /\ map_calls = 0

(* ------------------------------------------------------------------ *)
(* RiskMappingAgent operations                                         *)
(* ------------------------------------------------------------------ *)
\* one call of map_anomalies_to_risks(anomaly_data)
CallMapper(anomaly_data) ==
  \E r \in { MapAnomaliesToRisks(Hist, anomaly_data) } :
     /\ risk_history' = r.hist.risk_history
     /\ sensor_anomaly_counts' = r.hist.sensor_anomaly_counts
     /\ total_anomalies' = r.hist.total_anomalies
     /\ map_result' = r.result
     /\ last_call' = [op |-> "map", prev |-> last_call.op, anomaly_data |-> anomaly_data]
     /\ map_calls' = map_calls + 1
     /\ UNCHANGED summary

map_anomalies_to_risks ==
  /\ map_calls < MaxMapCalls
  /\ \E predictions \in LabelVectors, sensor_data \in Frames \cup {NoneFrame} :
       CallMapper([predictions |-> predictions, sensor_data |-> sensor_data])

get_historical_risk_summary ==
  /\ summary' = GetHistoricalRiskSummary(Hist)
  /\ last_call' = [op |-> "summary", prev |-> last_call.op, anomaly_data |-> NoData]
  /\ UNCHANGED << risk_history, sensor_anomaly_counts, total_anomalies,
                  map_result, map_calls >>

\* variant of reset_history that leaves total_anomalies as it is
reset_history_partial ==
  /\ risk_history' = EmptyHistory.risk_history
  /\ sensor_anomaly_counts' = EmptyHistory.sensor_anomaly_counts
  /\ last_call' = [op |-> "reset", prev |-> last_call.op, anomaly_data |-> NoData]
  /\ UNCHANGED << total_anomalies, map_result, summary, map_calls >>

reset_history ==
  /\ risk_history' = EmptyHistory.risk_history
  /\ sensor_anomaly_counts' = EmptyHistory.sensor_anomaly_counts
  /\ total_anomalies' = EmptyHistory.total_anomalies
  /\ last_call' = [op |-> "reset", prev |-> last_call.op, anomaly_data |-> NoData]
  /\ UNCHANGED << map_result, summary, map_calls >>


(* ------------------------------------------------------------------ *)
(* agents.py: CoordinationAgent                                        *)
(* ------------------------------------------------------------------ *)
Unset == [isSet |-> FALSE]
Some(v) == [isSet |-> TRUE, value |-> v]

\* __init__: no collaborator registered
NoAgents ==
  [perception_agent |-> "None", fault_detection_agent |-> "None",
   cyber_risk_agent |-> "None", operational_risk_agent |-> "None",
   decision_agent |-> "None", risk_mapping_agent |-> "None"]

\* the collaborators of app.py initialize_system
AppAgents ==
  [perception_agent |-> "PerceptionAgent",
   fault_detection_agent |-> "FaultDetectionAgent",
   cyber_risk_agent |-> "CyberRiskAssessmentAgent",
   operational_risk_agent |-> "OperationalRiskAssessmentAgent",
   decision_agent |-> "DecisionMakingAgent",
   risk_mapping_agent |-> "RiskMappingAgent"]

\* arguments register_agents is called with: the application's, the test's
\* (no risk mapper), one with a detector whose result also carries an
\* 'attack_probabilities' entry, and one that passes None for the cyber scorer
RegisterConfigs ==
  { AppAgents,
    [AppAgents EXCEPT !.risk_mapping_agent = "None"],
    [AppAgents EXCEPT !.fault_detection_agent = "OtherDetector"],
    [AppAgents EXCEPT !.cyber_risk_agent = "None"] }

\* register_agents calls explored
MaxRegisters == 2

\* batches process_data is called with
CoordFrames ==
  { [isNone |-> FALSE, cols |-> [c \in FrameColumns |-> Flat]],
    [isNone |-> FALSE, cols |-> [c \in FrameColumns |->
                                   IF c = "LIT-101" THEN Spike(1) ELSE Flat]],
    [isNone |-> FALSE, cols |-> [c \in FrameColumns |-> Spike(1)]] }

\* what the classifier answers on a batch: labels, and an attack probability
\* (percent) for the positive and for the negative samples
ClassifierLabels ==
  { Zeros(NumRows), OneAt(NumRows, {1}), OneAt(NumRows, 1..NumRows) }
PositiveProbs == { 60, 95 }
NegativeProbs == { 5 }

ProbsFor(y_pred, p, q) ==
  [i \in 1..Len(y_pred) |-> IF y_pred[i] = 1 THEN p ELSE q]

\* keys of the detection result, by the detector registered
KeysOf(detector) ==
  IF detector = "OtherDetector"
  THEN DetectKeys \cup { "attack_probabilities" }
  ELSE DetectKeys

\* str(e) of the exception a stage raises
StageError(stage) ==
  CASE stage = "preprocess" -> "preprocess failed"
    [] stage = "detect" -> "detect failed"
    [] stage = "cyber" -> "cyber assess_risk failed"
    [] stage = "operational" -> "operational assess_risk failed"
    [] stage = "decide" -> "decide failed"

\* str(e) of the AttributeError of a call on None
NoneError(stage) ==
  CASE stage = "preprocess" -> "'NoneType' object has no attribute 'preprocess'"
    [] stage = "detect" -> "'NoneType' object has no attribute 'detect'"
    [] stage = "cyber" -> "'NoneType' object has no attribute 'assess_risk'"
    [] stage = "operational" -> "'NoneType' object has no attribute 'assess_risk'"
    [] stage = "decide" -> "'NoneType' object has no attribute 'decide'"

\* str(e) of the KeyError of detection_results['attack_probabilities']
KeyErrorText == "'attack_probabilities'"

\* variant of _log_event that keeps only the latest three entries
LogEventRing(log, message, detail, level) ==
  Append(IF Len(log) >= 3 THEN Tail(log) ELSE log,
         [level |-> level, message |-> message, detail |-> detail])

\* _log_event (the timestamp of the entry is left out)
LogEvent(log, message, detail, level) ==
  Append(log, [level |-> level, message |-> message, detail |-> detail])

CoordInit ==
  /\ agents = NoAgents
  /\ execution_log = << >>
  /\ system_state = "INITIALIZED"
  /\ pc = "idle"
  /\ raw_data = NoneFrame
  /\ timestamps = NoTimestamps
  /\ detection_results = Unset
  /\ cyber_assessment = Unset
  /\ operational_assessment = Unset
  /\ decisions = Unset
  /\ risk_mapping_results = Unset
  /\ stage_calls = << >>
  /\ result = [status |-> "NONE"]
  /\ calls = 0

\* the threads of the application
Threads == { "t1", "t2" }

EmptySummary ==
  [total_anomalies |-> 0, risk_counts |-> [risk \in RiskSet |-> 0],
   top_affected_sensors |-> << >>]

\* no thread has called anything yet
ThreadInit ==
  /\ th_pc = [t \in Threads |-> "idle"]
  /\ th_op = [t \in Threads |-> "none"]
  /\ th_started = 0
  /\ th_pairs = [t \in Threads |-> << >>]
  /\ th_k = [t \in Threads |-> 0]
  /\ th_reg = [t \in Threads |-> 0]
  /\ th_summary = [t \in Threads |-> EmptySummary]
  /\ th_seen = [t \in Threads |-> {}]

\* rows of test_data
TestRows == 5
\* DataSimulator(test_data, batch_size=50, delay=3)
InitBatchSize == 50
\* the batch sizes a client asks for in start_simulation
BatchSizes == { 2, 3 }

\* no scoring agent has been called directly
ScoreInit ==
  /\ sc_call = [op |-> "none"]
  /\ sc_result = [op |-> "none"]

\* app.py module level: no simulation runs and data_simulator is None (batch
\* size 0) until initialize_system builds it
SimInit ==
  /\ simulation_running = FALSE
  /\ simulation_thread = 0
  /\ loop_pc = << >>
  /\ current_index = 0
  /\ batch_size = 0
  /\ emitted = "none"

Init == MapperInit /\ CoordInit /\ ThreadInit /\ ScoreInit /\ SimInit

RegisterCount ==
  Cardinality({ i \in 1..Len(execution_log) :
                  execution_log[i].message = "All agents registered" })

\* register_agents
register_agents ==
  /\ pc = "idle"
  /\ RegisterCount < MaxRegisters
  /\ \E config \in RegisterConfigs : agents' = config
  /\ system_state' = "READY"
  /\ execution_log' = LogEvent(execution_log, "All agents registered", "", "INFO")
  /\ UNCHANGED << mapperVars, callVars >>

\* process_data, entry: the start entry, then state PROCESSING
ProcessStart ==
  /\ pc = "idle"
  /\ calls < MaxCalls
  /\ \E batch \in CoordFrames : raw_data' = batch
  /\ execution_log' = LogEvent(execution_log, "Starting data processing pipeline",
                               "", "INFO")
  /\ system_state' = "PROCESSING"
  /\ pc' = "preprocess"
  /\ calls' = calls + 1
  /\ stage_calls' = << >>
  /\ timestamps' = NoTimestamps
  /\ detection_results' = Unset
  /\ cyber_assessment' = Unset
  /\ operational_assessment' = Unset
  /\ decisions' = Unset
  /\ risk_mapping_results' = Unset
  /\ UNCHANGED << mapperVars, agents, result >>

\* variant of the except branch that leaves the error entry out of the log
AbortNoLog(e) ==
  /\ system_state' = "ERROR"
  /\ execution_log' = execution_log
  /\ result' = [status |-> "ERROR", system_state |-> "ERROR", error |-> e,
                execution_log |-> execution_log']
  /\ pc' = "idle"

\* the except branch of process_data: state ERROR, the error entry, the
\* structured error result
Abort(e) ==
  /\ system_state' = "ERROR"
  /\ execution_log' = LogEvent(execution_log, "Pipeline error", e, "ERROR")
  /\ result' = [status |-> "ERROR", system_state |-> "ERROR", error |-> e,
                execution_log |-> execution_log']
  /\ pc' = "idle"

\* the stage that follows each stage of the try block
\* variant of the order of the try block with the risk-mapping block right
\* after the detection
NextStageMapEarly(stage) ==
  CASE stage = "preprocess" -> "detect"
    [] stage = "detect" -> "map"
    [] stage = "map" -> "cyber"
    [] stage = "cyber" -> "operational"
    [] stage = "operational" -> "decide"
    [] stage = "decide" -> "complete"

NextStage(stage) ==
  CASE stage = "preprocess" -> "detect"
    [] stage = "detect" -> "cyber"
    [] stage = "cyber" -> "operational"
    [] stage = "operational" -> "decide"
    [] stage = "decide" -> "map"
    [] stage = "map" -> "complete"

\* a stage call that raises: on an unregistered collaborator always, on a
\* registered one when the collaborator fails
StageRaises(stage, agent, args) ==
  /\ pc = stage
  /\ \/ /\ agent = "None"
        /\ stage_calls' = stage_calls
        /\ Abort(NoneError(stage))
     \/ /\ agent # "None"
        /\ stage_calls' = Append(stage_calls,
                                 [stage |-> stage, args |-> args, raised |-> TRUE])
        /\ Abort(StageError(stage))
  /\ UNCHANGED << mapperVars, agents, localVars, calls >>

\* X_processed, timestamps = self.perception_agent.preprocess(raw_data)
ProcessPreprocess ==
  \/ StageRaises("preprocess", agents.perception_agent, <<raw_data>>)
  \/ /\ pc = "preprocess"
     /\ agents.perception_agent # "None"
     /\ timestamps' = Timestamps(FrameLen(raw_data))
     /\ stage_calls' = Append(stage_calls, [stage |-> "preprocess",
                                            args |-> <<raw_data>>, raised |-> FALSE])
     /\ pc' = NextStage("preprocess")
     /\ UNCHANGED << mapperVars, coordVars, raw_data, detection_results,
                     cyber_assessment, operational_assessment, decisions,
                     risk_mapping_results, result, calls >>

\* detection_results = self.fault_detection_agent.detect(X_processed)
ProcessDetect ==
  \/ StageRaises("detect", agents.fault_detection_agent, <<raw_data>>)
  \/ /\ pc = "detect"
     /\ agents.fault_detection_agent # "None"
     /\ \E y_pred \in ClassifierLabels, p \in PositiveProbs, q \in NegativeProbs :
          detection_results' =
            Some(DetectResult(y_pred, ProbsFor(y_pred, p, q),
                              KeysOf(agents.fault_detection_agent)))
     /\ stage_calls' = Append(stage_calls, [stage |-> "detect",
                                            args |-> <<raw_data>>, raised |-> FALSE])
     /\ pc' = NextStage("detect")
     /\ UNCHANGED << mapperVars, coordVars, raw_data, timestamps,
                     cyber_assessment, operational_assessment, decisions,
                     risk_mapping_results, result, calls >>

\* arguments of self.cyber_risk_agent.assess_risk
CyberArgs == << detection_results, timestamps >>

\* cyber_assessment = self.cyber_risk_agent.assess_risk(detection_results, timestamps)
ProcessCyber ==
  \/ StageRaises("cyber", agents.cyber_risk_agent, CyberArgs)
  \/ /\ pc = "cyber"
     /\ agents.cyber_risk_agent # "None"
     /\ cyber_assessment' = Some(CyberAssessRisk(CyberArgs[1].value, CyberArgs[2]))
     /\ stage_calls' = Append(stage_calls, [stage |-> "cyber",
                                            args |-> CyberArgs, raised |-> FALSE])
     /\ pc' = NextStage("cyber")
     /\ UNCHANGED << mapperVars, coordVars, raw_data, timestamps,
                     detection_results, operational_assessment, decisions,
                     risk_mapping_results, result, calls >>

\* variant that hands the scorer the cyber assessment of the last result
OperationalArgsStale ==
  << detection_results,
     IF result.status = "SUCCESS" THEN Some(result.cyber_assessment)
     ELSE cyber_assessment >>

\* arguments of self.operational_risk_agent.assess_risk
OperationalArgs == << detection_results, cyber_assessment >>

\* operational_assessment = self.operational_risk_agent.assess_risk(...)
ProcessOperational ==
  \/ StageRaises("operational", agents.operational_risk_agent, OperationalArgs)
  \/ /\ pc = "operational"
     /\ agents.operational_risk_agent # "None"
     /\ operational_assessment' =
          Some(OperationalAssessRisk(OperationalArgs[1].value, OperationalArgs[2].value))
     /\ stage_calls' = Append(stage_calls, [stage |-> "operational",
                                            args |-> OperationalArgs, raised |-> FALSE])
     /\ pc' = NextStage("operational")
     /\ UNCHANGED << mapperVars, coordVars, raw_data, timestamps,
                     detection_results, cyber_assessment, decisions,
                     risk_mapping_results, result, calls >>

\* arguments of self.decision_agent.decide
DecideArgs == << cyber_assessment, operational_assessment >>

\* decisions = self.decision_agent.decide(cyber_assessment, operational_assessment)
ProcessDecide ==
  \/ StageRaises("decide", agents.decision_agent, DecideArgs)
  \/ /\ pc = "decide"
     /\ agents.decision_agent # "None"
     /\ decisions' = Some(Decide(DecideArgs[1].value, DecideArgs[2].value))
     /\ stage_calls' = Append(stage_calls, [stage |-> "decide",
                                            args |-> DecideArgs, raised |-> FALSE])
     /\ pc' = NextStage("decide")
     /\ UNCHANGED << mapperVars, coordVars, raw_data, timestamps,
                     detection_results, cyber_assessment, operational_assessment,
                     risk_mapping_results, result, calls >>

\* whether building the argument dict of the mapper call raises KeyError
MappingArgsRaise(detection) == "attack_probabilities" \notin detection.keys

\* variant of the risk-mapping block without its own try/except: the KeyError
\* reaches the except branch of process_data
ProcessMapPropagates ==
  /\ pc = "map"
  /\ \/ /\ agents.risk_mapping_agent = "None"
        /\ pc' = NextStage("map")
        /\ UNCHANGED << mapperVars, execution_log, risk_mapping_results,
                        stage_calls, system_state, result >>
     \/ /\ agents.risk_mapping_agent # "None"
        /\ MappingArgsRaise(detection_results.value)
        /\ Abort(KeyErrorText)
        /\ UNCHANGED << mapperVars, stage_calls, risk_mapping_results >>
     \/ /\ agents.risk_mapping_agent # "None"
        /\ ~MappingArgsRaise(detection_results.value)
        /\ pc' = NextStage("map")
        /\ LET anomaly_data == [predictions |-> detection_results.value.predictions,
                                sensor_data |-> raw_data]
           IN /\ CallMapper(anomaly_data)
              /\ risk_mapping_results' = Some(map_result')
              /\ stage_calls' = Append(stage_calls, [stage |-> "map",
                                                     args |-> <<anomaly_data>>,
                                                     raised |-> FALSE])
        /\ execution_log' = LogEvent(execution_log, "Risk mapping completed", "", "INFO")
        /\ UNCHANGED << system_state, result >>
  /\ UNCHANGED << agents, raw_data, timestamps, detection_results,
                  cyber_assessment, operational_assessment, decisions, calls >>

\* the risk-mapping block of process_data
ProcessMap ==
  /\ pc = "map"
  /\ pc' = NextStage("map")
  /\ \/ /\ agents.risk_mapping_agent = "None"
        /\ UNCHANGED << mapperVars, execution_log, risk_mapping_results, stage_calls >>
     \/ /\ agents.risk_mapping_agent # "None"
        /\ MappingArgsRaise(detection_results.value)
        /\ execution_log' = LogEvent(execution_log, "Risk mapping error",
                                     KeyErrorText, "WARNING")
        /\ risk_mapping_results' = Unset
        /\ UNCHANGED << mapperVars, stage_calls >>
     \/ /\ agents.risk_mapping_agent # "None"
        /\ ~MappingArgsRaise(detection_results.value)
        /\ LET anomaly_data == [predictions |-> detection_results.value.predictions,
                                sensor_data |-> raw_data]
           IN /\ CallMapper(anomaly_data)
              /\ risk_mapping_results' = Some(map_result')
              /\ stage_calls' = Append(stage_calls, [stage |-> "map",
                                                     args |-> <<anomaly_data>>,
                                                     raised |-> FALSE])
        /\ execution_log' = LogEvent(execution_log, "Risk mapping completed", "", "INFO")
  /\ UNCHANGED << agents, system_state, raw_data, timestamps, detection_results,
                  cyber_assessment, operational_assessment, decisions, result, calls >>

\* variant of the end of the try block that puts the state back to READY
ProcessCompleteReady ==
  /\ pc = "complete"
  /\ system_state' = "READY"
  /\ execution_log' = LogEvent(execution_log, "Pipeline completed successfully",
                               "", "SUCCESS")
  /\ result' = [status |-> "SUCCESS",
                system_state |-> system_state',
                detection_results |-> detection_results.value,
                cyber_assessment |-> cyber_assessment.value,
                operational_assessment |-> operational_assessment.value,
                decisions |-> decisions.value,
                execution_log |-> execution_log',
                risk_mapping |-> risk_mapping_results]
  /\ pc' = "idle"
  /\ UNCHANGED << mapperVars, agents, localVars, stage_calls, calls >>

\* the end of the try block: state COMPLETED, the success entry, the result
ProcessComplete ==
  /\ pc = "complete"
  /\ system_state' = "COMPLETED"
  /\ execution_log' = LogEvent(execution_log, "Pipeline completed successfully",
                               "", "SUCCESS")
  /\ result' = [status |-> "SUCCESS",
                system_state |-> system_state',
                detection_results |-> detection_results.value,
                cyber_assessment |-> cyber_assessment.value,
                operational_assessment |-> operational_assessment.value,
                decisions |-> decisions.value,
                execution_log |-> execution_log',
                risk_mapping |-> risk_mapping_results]
  /\ pc' = "idle"
  /\ UNCHANGED << mapperVars, agents, localVars, stage_calls, calls >>

process_data ==
  \/ ProcessStart
  \/ ProcessPreprocess
  \/ ProcessDetect
  \/ ProcessCyber
  \/ ProcessOperational
  \/ ProcessDecide
  \/ ProcessMap
  \/ ProcessComplete

Next ==
  \/ register_agents /\ UNCHANGED << threadVars, scoreVars, simVars >>
  \/ process_data /\ UNCHANGED << threadVars, scoreVars, simVars >>

Spec == Init /\ [][Next]_vars

(* ------------------------------------------------------------------ *)
(* Direct use of the RiskMappingAgent                                  *)
(* ------------------------------------------------------------------ *)
MapperNext ==
  \/ map_anomalies_to_risks /\ UNCHANGED << coordVars, callVars, threadVars, scoreVars, simVars >>
  \/ get_historical_risk_summary /\ UNCHANGED << coordVars, callVars, threadVars, scoreVars, simVars >>
  \/ reset_history /\ UNCHANGED << coordVars, callVars, threadVars, scoreVars, simVars >>

SpecMapper == Init /\ [][MapperNext]_vars

(* ------------------------------------------------------------------ *)
(* Properties                                                          *)
(* ------------------------------------------------------------------ *)
MandatoryStages == { "preprocess", "detect", "cyber", "operational", "decide" }

AgentOf(stage) ==
  CASE stage = "preprocess" -> agents.perception_agent
    [] stage = "detect" -> agents.fault_detection_agent
    [] stage = "cyber" -> agents.cyber_risk_agent
    [] stage = "operational" -> agents.operational_risk_agent
    [] stage = "decide" -> agents.decision_agent

IsPrefix(a, b) == Len(a) <= Len(b) /\ \A i \in 1..Len(a) : a[i] = b[i]

LastOf(sq) == sq[Len(sq)]

NoStageTwice(sc) ==
  \A i, j \in 1..Len(sc) : sc[i].stage = sc[j].stage => i = j

\* a step of process_data in which the stage at pc raises
StageFails ==
  /\ pc \in MandatoryStages
  /\ \/ AgentOf(pc) = "None"
     \/ /\ Len(stage_calls') = Len(stage_calls) + 1
        /\ LastOf(stage_calls').raised

\* C1: when a mandatory stage raises, process_data returns (it does not raise)
\* a result with status ERROR that carries the message, the state is ERROR at
\* the return, one ERROR entry with the message has been appended to the
\* execution log, and no stage has run twice in the call.
C1_StageFailureIsStructured ==
  [][ StageFails =>
        /\ pc' = "idle"
        /\ result'.status = "ERROR"
        /\ result'.error \in { StageError(pc), NoneError(pc) }
        /\ result'.system_state = "ERROR"
        /\ system_state' = "ERROR"
        /\ Len(execution_log') = Len(execution_log) + 1
        /\ IsPrefix(execution_log, execution_log')
        /\ LastOf(execution_log').level = "ERROR"
        /\ LastOf(execution_log').detail = result'.error
        /\ result'.execution_log = execution_log'
        /\ NoStageTwice(stage_calls')
        /\ \A i \in 1..Len(stage_calls) : ~stage_calls[i].raised ]_vars

\* a call in which the operational scorer raised after the cyber scorer ran
C1_Witness ==
  /\ pc = "idle"
  /\ result.status = "ERROR"
  /\ system_state = "ERROR"
  /\ Len(stage_calls) = 4
  /\ LastOf(stage_calls).stage = "operational"
  /\ LastOf(stage_calls).raised
  /\ LastOf(execution_log).level = "ERROR"

AllowedTransitions ==
  { <<"READY", "PROCESSING">>, <<"PROCESSING", "COMPLETED">>,
    <<"PROCESSING", "ERROR">>, <<"COMPLETED", "PROCESSING">>,
    <<"ERROR", "PROCESSING">> }

\* C2: on a registered coordinator the steps of process_data change the state
\* only along READY->PROCESSING, PROCESSING->COMPLETED, PROCESSING->ERROR,
\* COMPLETED->PROCESSING and ERROR->PROCESSING; the state is PROCESSING while
\* the call runs and COMPLETED or ERROR when it returns.
C2_StateMachine ==
  [][ (pc' # pc /\ system_state # "INITIALIZED") =>
        /\ \/ system_state' = system_state
           \/ <<system_state, system_state'>> \in AllowedTransitions
        /\ pc' # "idle" => system_state' = "PROCESSING"
        /\ pc' = "idle" => system_state' \in { "COMPLETED", "ERROR" }
        /\ system_state' \notin { "READY", "INITIALIZED" } ]_vars

\* a call accepted in state ERROR that ended in COMPLETED
C2_Witness ==
  /\ pc = "idle"
  /\ system_state = "COMPLETED"
  /\ \E i \in 1..(Len(execution_log) - 1) :
       /\ execution_log[i].level = "ERROR"
       /\ execution_log[i + 1].message = "Starting data processing pipeline"
       /\ \A j \in (i + 2)..Len(execution_log) :
            execution_log[j].message # "All agents registered"

SomeMandatoryMissing == \E stage \in MandatoryStages : AgentOf(stage) = "None"

\* C3 (as claimed): a process_data call made while a mandatory collaborator is
\* not registered is rejected at once: the call is over after its first step
\* and the state is what it was before the call.
C3_RejectedWhenUnregistered ==
  [][ (pc = "idle" /\ calls' = calls + 1 /\ SomeMandatoryMissing) =>
        /\ pc' = "idle"
        /\ system_state' = system_state ]_vars

MapperFails ==
  /\ agents.risk_mapping_agent # "None"
  /\ detection_results.isSet
  /\ MappingArgsRaise(detection_results.value)

\* C4: when the risk-mapping step raises after the mandatory chain succeeded,
\* the step appends one WARNING entry and the call goes on; the call returns
\* status SUCCESS in state COMPLETED with the detection summary, both
\* assessments and the plan, and without a risk-mapping entry.
C4_MapperFailureSwallowed ==
  [][ /\ (pc = "map" /\ MapperFails) =>
           /\ pc' = "complete"
           /\ system_state' = system_state
           /\ execution_log' = Append(execution_log, LastOf(execution_log'))
           /\ LastOf(execution_log').level = "WARNING"
           /\ ~risk_mapping_results'.isSet
      /\ (pc = "complete" /\ MapperFails) =>
           /\ pc' = "idle"
           /\ result'.status = "SUCCESS"
           /\ system_state' = "COMPLETED"
           /\ result'.system_state = "COMPLETED"
           /\ result'.detection_results = detection_results.value
           /\ result'.cyber_assessment = cyber_assessment.value
           /\ result'.operational_assessment = operational_assessment.value
           /\ result'.decisions = decisions.value
           /\ ~result'.risk_mapping.isSet
           /\ Len(execution_log') = Len(execution_log) + 1
           /\ LastOf(execution_log).level = "WARNING"
           /\ LastOf(execution_log').level = "SUCCESS" ]_vars

\* a SUCCESS return of a call whose mapping step logged the warning
C4_Witness ==
  /\ pc = "idle"
  /\ result.status = "SUCCESS"
  /\ system_state = "COMPLETED"
  /\ agents.risk_mapping_agent = "RiskMappingAgent"
  /\ ~result.risk_mapping.isSet
  /\ Len(execution_log) >= 2
  /\ execution_log[Len(execution_log) - 1].level = "WARNING"

\* C5 (as claimed): with a risk mapper registered and the FaultDetectionAgent
\* as detector, a call whose mandatory chain succeeded has invoked the mapper
\* on the batch's labels and frame and returns its mapping in the result.
C5_MappingMerged ==
  [][ (/\ pc = "complete"
       /\ pc' = "idle"
       /\ agents.risk_mapping_agent = "RiskMappingAgent"
       /\ agents.fault_detection_agent = "FaultDetectionAgent") =>
        /\ result'.status = "SUCCESS"
        /\ result'.risk_mapping.isSet
        /\ \E i \in 1..Len(stage_calls) :
             /\ stage_calls[i].stage = "map"
             /\ stage_calls[i].args[1].predictions = detection_results.value.predictions
             /\ stage_calls[i].args[1].sensor_data = raw_data ]_vars

TerminalLevels == { "SUCCESS", "ERROR" }

StartMessage == "Starting data processing pipeline"

\* C6: the execution log only grows by appending: every step keeps the old
\* entries in place; register_agents appends one entry; a process_data call
\* appends its start entry first and appends exactly one terminal entry
\* (SUCCESS or ERROR), as its last entry.
C6_LogAppendOnly ==
  [][ /\ IsPrefix(execution_log, execution_log')
      /\ (pc = "idle" /\ pc' = "idle") =>
           /\ Len(execution_log') = Len(execution_log) + 1
           /\ LastOf(execution_log').message = "All agents registered"
      /\ (pc = "idle" /\ pc' # "idle") =>
           /\ Len(execution_log') = Len(execution_log) + 1
           /\ LastOf(execution_log').message = StartMessage
      /\ (pc # "idle" /\ pc' # "idle") =>
           \A i \in (Len(execution_log) + 1)..Len(execution_log') :
             /\ execution_log'[i].level \notin TerminalLevels
             /\ execution_log'[i].message # StartMessage
      /\ (pc # "idle" /\ pc' = "idle") =>
           /\ Len(execution_log') = Len(execution_log) + 1
           /\ LastOf(execution_log').level \in TerminalLevels ]_vars

\* a log holding a registration, a failed call and a later successful call
C6_Witness ==
  /\ pc = "idle"
  /\ Len(execution_log) >= 5
  /\ execution_log[1].message = "All agents registered"
  /\ \E i \in 1..Len(execution_log) : execution_log[i].level = "ERROR"
  /\ LastOf(execution_log).level = "SUCCESS"

StageOrder == << "preprocess", "detect", "cyber", "operational", "decide", "map" >>

\* C7: in one process_data call the stages run in the order cyber scorer,
\* operational scorer, planner, each at most once and only after every
\* earlier stage returned; the operational scorer is given the detection
\* result and the cyber assessment computed from it in this call, the planner
\* the cyber and operational assessments of this call.
C7_StageOrderAndDataFlow ==
  /\ Len(stage_calls) <= Len(StageOrder)
  /\ \A i \in 1..Len(stage_calls) :
       /\ stage_calls[i].stage = StageOrder[i]
       /\ i < Len(stage_calls) => ~stage_calls[i].raised
  /\ Len(stage_calls) >= 4 =>
       LET c == stage_calls[3]
           o == stage_calls[4]
       IN /\ o.args[1] = c.args[1]
          /\ o.args[2].isSet
          /\ o.args[2].value = CyberAssessRisk(c.args[1].value, c.args[2])
  /\ Len(stage_calls) >= 5 =>
       LET o == stage_calls[4]
           d == stage_calls[5]
       IN /\ d.args[1] = o.args[2]
          /\ d.args[2].isSet
          /\ d.args[2].value = OperationalAssessRisk(o.args[1].value, o.args[2].value)

\* the planner has run in the second call, on a batch whose cyber assessment
\* differs from the one of the first call
C7_Witness ==
  /\ calls = 2
  /\ Len(stage_calls) >= 5
  /\ ~stage_calls[5].raised
  /\ result.status = "SUCCESS"
  /\ result.cyber_assessment # stage_calls[5].args[1].value

\* the samples of a call in which a sensor is flagged: positive label, row in
\* the frame, column present, reading more than 2 standard deviations off
FlaggedSamples(anomaly_data, sensor_name) ==
  IF anomaly_data.sensor_data.isNone \/ sensor_name \notin FrameColumns
  THEN {}
  ELSE { i \in 1..Len(anomaly_data.predictions) :
           /\ anomaly_data.predictions[i] = 1
           /\ i <= NumRows
           /\ anomaly_data.sensor_data.cols[sensor_name] # Absent
           /\ IsSensorAnomalous(sensor_name,
                                << anomaly_data.sensor_data.cols[sensor_name][i], 1 >>,
                                anomaly_data.sensor_data) }

\* the sensors with an entry in one of two counter states, and the sensors a
\* frame can carry: every other sensor reads 0 in both and is never flagged
Touched(h1, c1, h2, c2) ==
  { t[2] : t \in h1 \cup h2 }
    \cup { c1[i][1] : i \in 1..Len(c1) } \cup { c2[i][1] : i \in 1..Len(c2) }
    \cup (FrameColumns \cap SensorNames)

CountersNotBelow(h1, c1, t1, h2, c2, t2) ==
  /\ t1 >= t2
  /\ \A s \in Touched(h1, c1, h2, c2) :
       /\ DictGet(c1, s) >= DictGet(c2, s)
       /\ \A r \in RiskSet : HistGet(h1, r, s) >= HistGet(h2, r, s)

\* C8: a map_anomalies_to_risks call raises the lifetime counter of every
\* sensor by the number of its flagged samples, and the lifetime counter of
\* every (category, sensor) by the same number when the sensor maps to the
\* category and by 0 otherwise; the counters of a call add to those of the
\* calls before, and only reset_history lowers a counter.
C8_CountersAccumulate ==
  [][ /\ (last_call'.op = "map" /\ map_calls' = map_calls + 1) =>
           \A s \in Touched(risk_history', sensor_anomaly_counts',
                            risk_history, sensor_anomaly_counts) :
             \A k \in { Cardinality(FlaggedSamples(last_call'.anomaly_data, s)) } :
                /\ DictGet(sensor_anomaly_counts', s)
                     = DictGet(sensor_anomaly_counts, s) + k
                /\ \A r \in RiskSet :
                     HistGet(risk_history', r, s)
                       = HistGet(risk_history, r, s)
                           + (IF InSeq(r, RisksOf(s)) THEN k ELSE 0)
      /\ (last_call'.op # "reset") =>
           CountersNotBelow(risk_history', sensor_anomaly_counts', total_anomalies',
                            risk_history, sensor_anomaly_counts, total_anomalies)
    ]_vars

\* after two mapping calls a sensor with three categories has been flagged twice
C8_Witness ==
  /\ last_call.op = "map"
  /\ last_call.prev = "map"
  /\ DictGet(sensor_anomaly_counts, "LIT-101") = 2
  /\ HistGet(risk_history, "Data Tampering", "LIT-101") = 2
  /\ HistGet(risk_history, "Process Interruption", "P-101") = 1

ZeroSummary(sm) ==
  /\ sm.total_anomalies = 0
  /\ DOMAIN sm.risk_counts = RiskSet
  /\ Cardinality(RiskSet) = 8
  /\ \A r \in RiskSet : sm.risk_counts[r] = 0
  /\ sm.top_affected_sensors = << >>

NoPositive(predictions) == \A i \in 1..Len(predictions) : predictions[i] # 1

\* C9: after reset_history every cumulative counter is zero, the historical
\* summary reports total 0, count 0 for each of the 8 categories and no
\* affected sensor, and a mapping call without positive labels made right
\* after the reset returns the empty-result structure.
C9_ResetZeroes ==
  /\ last_call.op = "reset" =>
       /\ total_anomalies = 0
       /\ \A s \in SensorNames : DictGet(sensor_anomaly_counts, s) = 0
       /\ \A s \in SensorNames : \A r \in RiskSet : HistGet(risk_history, r, s) = 0
       /\ ZeroSummary(GetHistoricalRiskSummary(Hist))
  /\ (last_call.op = "summary" /\ last_call.prev = "reset") => ZeroSummary(summary)
  /\ (/\ last_call.op = "map"
      /\ last_call.prev = "reset"
      /\ NoPositive(last_call.anomaly_data.predictions)) =>
       /\ map_result = EmptyRiskMapping
       /\ ZeroSummary(GetHistoricalRiskSummary(Hist))

\* a reset made after a mapping call that had counted contributions
C9_Witness ==
  /\ last_call.op = "reset"
  /\ last_call.prev = "map"
  /\ map_result.majority_risk.category # "None"
  /\ total_anomalies = 0

\* C10: a mapping call with empty labels or without a positive label returns
\* the empty result: the 8 distribution values are 0, the majority category
\* is "None" and its severity is "Low".
C10_EmptyResult ==
  (last_call.op = "map" /\ NoPositive(last_call.anomaly_data.predictions)) =>
    /\ DOMAIN map_result.distribution = RiskSet
    /\ \A r \in RiskSet : map_result.distribution[r] = 0
    /\ map_result.majority_risk.category = "None"
    /\ map_result.majority_risk.severity = "Low"
    /\ map_result = EmptyRiskMapping

\* an all-negative label vector mapped on a frame with an outlying reading,
\* after an earlier call had counted contributions
C10_Witness ==
  /\ last_call.op = "map"
  /\ Len(last_call.anomaly_data.predictions) = NumRows
  /\ NoPositive(last_call.anomaly_data.predictions)
  /\ last_call.anomaly_data.sensor_data.cols["LIT-101"] = Spike(1)
  /\ total_anomalies > 0

(* ------------------------------------------------------------------ *)
(* C11: the returned distribution                                      *)
(* ------------------------------------------------------------------ *)
RECURSIVE DistributionSum(_, _)
\* the sum of the first k values of a distribution, in thousandths
DistributionSum(distribution, k) ==
  IF k = 0 THEN 0
  ELSE distribution[RISK_CATEGORIES[k]] + DistributionSum(distribution, k - 1)

RECURSIVE DetailsTotal(_, _)
\* the number of contributions a returned mapping reports over all categories
DetailsTotal(risk_details, k) ==
  IF k = 0 THEN 0
  ELSE risk_details[RISK_CATEGORIES[k]].total + DetailsTotal(risk_details, k - 1)

\* C11: after a mapping call with at least one contribution the 8 values of
\* the returned distribution sum to 1.0 (1000 thousandths); after a call
\* without contribution all 8 values are 0.
C11_DistributionSumsToOne ==
  last_call.op = "map" =>
    IF DetailsTotal(map_result.risk_details, Len(RISK_CATEGORIES)) > 0
    THEN DistributionSum(map_result.distribution, Len(RISK_CATEGORIES)) = 1000
    ELSE \A r \in RiskSet : map_result.distribution[r] = 0

(* ------------------------------------------------------------------ *)
(* Threads of the application (app.py) on the shared objects           *)
(*                                                                     *)
(* app.py starts simulation_loop in a threading.Thread and serves the  *)
(* HTTP handlers from request threads; the coordinator and the         *)
(* RiskMappingAgent are module globals used by all of them without a   *)
(* lock.  A thread runs one statement at a time; an augmented          *)
(* assignment (+=) is a load followed by a store.                      *)
(* ------------------------------------------------------------------ *)
MaxThreadOps == 2

\* the batches the threads map: one positive row on which LIT-101 (3 risks)
\* or P-101 (2 risks) or both read an outlying value
ThreadBatches ==
  { [predictions |-> OneAt(NumRows, {1}),
     sensor_data |-> [isNone |-> FALSE, cols |-> f]] :
       f \in { g \in [FrameColumns -> {Flat, Spike(1)}] :
                 \E c \in FrameColumns : g[c] = Spike(1) } }

\* d[k] = v on the insertion-ordered dict
DictSet(d, k, v) ==
  IF \E i \in 1..Len(d) : d[i][1] = k
  THEN [i \in 1..Len(d) |-> IF d[i][1] = k THEN <<k, v>> ELSE d[i]]
  ELSE Append(d, <<k, v>>)

\* self.risk_history[risk][sensor_name] = v
HistSet(h, risk, sensor_name, v) ==
  { x \in h : ~(x[1] = risk /\ x[2] = sensor_name) } \cup { <<risk, sensor_name, v>> }

HistNext ==
  [sensor_anomaly_counts |-> sensor_anomaly_counts',
   total_anomalies |-> total_anomalies',
   risk_history |-> risk_history']

InSummary(position) == position \in { "s_risk", "s_sensors" }

\* the lifetime states seen by the summary calls in flight after this step
Observe ==
  th_seen' = [u \in Threads |->
                IF InSummary(th_pc'[u])
                THEN (IF th_pc[u] = "idle" THEN {Hist} ELSE th_seen[u]) \cup {HistNext}
                ELSE th_seen[u]]

\* the coordinator and the mapper exist once initialize_system has run; the
\* handlers answer 400 / 503 before that
Initialized == agents # NoAgents

\* thread t enters an operation
Begin(t, op) ==
  /\ Initialized
  /\ th_pc[t] = "idle"
  /\ th_started < MaxThreadOps
  /\ th_started' = th_started + 1
  /\ th_op' = [th_op EXCEPT ![t] = op]

Goto(t, position) == th_pc' = [th_pc EXCEPT ![t] = position]

\* app.py initialize_system: builds the agents, registers them and builds the
\* data simulator
initialize_system ==
  /\ agents = NoAgents
  /\ agents' = AppAgents
  /\ system_state' = "READY"
  /\ execution_log' = LogEvent(execution_log, "All agents registered", "", "INFO")
  /\ current_index' = 0
  /\ batch_size' = InitBatchSize
  /\ UNCHANGED << mapperVars, callVars, threadVars, scoreVars,
                  simulation_running, simulation_thread, loop_pc, emitted >>

\* what no thread step changes
threadFrame == << callVars, agents, last_call, summary, map_calls, scoreVars,
                 simVars >>
\* the fields of the coordinator and of the mapper the threads share
coordShared == << execution_log, system_state >>
mapperShared == << risk_history, sensor_anomaly_counts, total_anomalies >>

(* --- map_anomalies_to_risks, statement by statement ----------------- *)
\* the call up to the loop: the flagged (row, sensor) pairs follow from the
\* arguments alone
MapBegin(t) ==
  /\ Begin(t, "map")
  /\ \E anomaly_data \in ThreadBatches :
       \E fp \in { FlaggedPairs(anomaly_data.predictions, anomaly_data.sensor_data) } :
          /\ th_pairs' = [th_pairs EXCEPT ![t] = fp.pairs]
          /\ Goto(t, IF Len(fp.pairs) = 0 THEN "m_return" ELSE "m_count")
  /\ UNCHANGED << mapperShared, map_result, coordShared, th_k, th_reg,
                  th_summary, threadFrame >>
  /\ Observe

\* self.sensor_anomaly_counts[sensor_name] += 1, the load
MapLoadCount(t) ==
  /\ th_pc[t] = "m_count"
  /\ th_reg' = [th_reg EXCEPT ![t] = DictGet(sensor_anomaly_counts, th_pairs[t][1][2])]
  /\ Goto(t, "m_count_store")
  /\ UNCHANGED << mapperShared, map_result, coordShared, th_op, th_started,
                  th_pairs, th_k, th_summary, threadFrame >>
  /\ Observe

\* self.sensor_anomaly_counts[sensor_name] += 1, the store
MapStoreCount(t) ==
  /\ th_pc[t] = "m_count_store"
  /\ sensor_anomaly_counts' =
       DictSet(sensor_anomaly_counts, th_pairs[t][1][2], th_reg[t] + 1)
  /\ Goto(t, "m_total")
  /\ UNCHANGED << risk_history, total_anomalies, map_result, coordShared, th_op,
                  th_started, th_pairs, th_k, th_reg, th_summary, threadFrame >>
  /\ Observe

\* self.total_anomalies += 1, the load
MapLoadTotal(t) ==
  /\ th_pc[t] = "m_total"
  /\ th_reg' = [th_reg EXCEPT ![t] = total_anomalies]
  /\ Goto(t, "m_total_store")
  /\ UNCHANGED << mapperShared, map_result, coordShared, th_op, th_started,
                  th_pairs, th_k, th_summary, threadFrame >>
  /\ Observe

\* self.total_anomalies += 1, the store; then the loop over the risks begins
MapStoreTotal(t) ==
  /\ th_pc[t] = "m_total_store"
  /\ total_anomalies' = th_reg[t] + 1
  /\ th_k' = [th_k EXCEPT ![t] = 1]
  /\ Goto(t, "m_risk")
  /\ UNCHANGED << risk_history, sensor_anomaly_counts, map_result, coordShared,
                  th_op, th_started, th_pairs, th_reg, th_summary, threadFrame >>
  /\ Observe

\* self.risk_history[risk][sensor_name] += 1, the load
MapLoadRisk(t) ==
  /\ th_pc[t] = "m_risk"
  /\ th_reg' = [th_reg EXCEPT ![t] =
                  HistGet(risk_history, RisksOf(th_pairs[t][1][2])[th_k[t]],
                          th_pairs[t][1][2])]
  /\ Goto(t, "m_risk_store")
  /\ UNCHANGED << mapperShared, map_result, coordShared, th_op, th_started,
                  th_pairs, th_k, th_summary, threadFrame >>
  /\ Observe

\* self.risk_history[risk][sensor_name] += 1, the store; after the last risk
\* of the sensor the loop goes on with the next flagged sensor or ends
MapStoreRisk(t) ==
  /\ th_pc[t] = "m_risk_store"
  /\ LET sensor_name == th_pairs[t][1][2]
         risks == RisksOf(sensor_name)
     IN /\ risk_history' =
             HistSet(risk_history, risks[th_k[t]], sensor_name, th_reg[t] + 1)
        /\ IF th_k[t] < Len(risks)
           THEN /\ th_k' = [th_k EXCEPT ![t] = th_k[t] + 1]
                /\ Goto(t, "m_risk")
                /\ UNCHANGED th_pairs
           ELSE /\ th_k' = [th_k EXCEPT ![t] = 0]
                /\ th_pairs' = [th_pairs EXCEPT ![t] = Tail(th_pairs[t])]
                /\ Goto(t, IF Len(th_pairs[t]) > 1 THEN "m_count" ELSE "m_return")
  /\ UNCHANGED << sensor_anomaly_counts, total_anomalies, map_result, coordShared,
                  th_op, th_started, th_reg, th_summary, threadFrame >>
  /\ Observe

\* the end of map_anomalies_to_risks
MapReturn(t) ==
  /\ th_pc[t] = "m_return"
  /\ Goto(t, "idle")
  /\ UNCHANGED << mapperShared, map_result, coordShared, th_op, th_started,
                  th_pairs, th_k, th_reg, th_summary, threadFrame >>
  /\ Observe

(* --- reset_history, statement by statement -------------------------- *)
\* self.risk_history.clear()
ResetClearHistory(t) ==
  /\ Begin(t, "reset")
  /\ risk_history' = {}
  /\ Goto(t, "r_counts")
  /\ UNCHANGED << sensor_anomaly_counts, total_anomalies, map_result, coordShared,
                  th_pairs, th_k, th_reg, th_summary, threadFrame >>
  /\ Observe

\* self.sensor_anomaly_counts.clear()
ResetClearCounts(t) ==
  /\ th_pc[t] = "r_counts"
  /\ sensor_anomaly_counts' = << >>
  /\ Goto(t, "r_total")
  /\ UNCHANGED << risk_history, total_anomalies, map_result, coordShared, th_op,
                  th_started, th_pairs, th_k, th_reg, th_summary, threadFrame >>
  /\ Observe

\* self.total_anomalies = 0
ResetZeroTotal(t) ==
  /\ th_pc[t] = "r_total"
  /\ total_anomalies' = 0
  /\ Goto(t, "idle")
  /\ UNCHANGED << risk_history, sensor_anomaly_counts, map_result, coordShared,
                  th_op, th_started, th_pairs, th_k, th_reg, th_summary, threadFrame >>
  /\ Observe

(* --- get_historical_risk_summary, statement by statement ------------ *)
\* summary = {'total_anomalies': self.total_anomalies, ...}
SummaryReadTotal(t) ==
  /\ Begin(t, "summary")
  /\ th_summary' = [th_summary EXCEPT ![t] =
                      [EmptySummary EXCEPT !.total_anomalies = total_anomalies]]
  /\ th_k' = [th_k EXCEPT ![t] = 1]
  /\ Goto(t, "s_risk")
  /\ UNCHANGED << mapperShared, map_result, coordShared, th_pairs, th_reg,
                  threadFrame >>
  /\ Observe

\* one pass of `for risk in self.RISK_CATEGORIES`
SummaryReadRisk(t) ==
  /\ th_pc[t] = "s_risk"
  /\ LET risk == RISK_CATEGORIES[th_k[t]]
     IN th_summary' = [th_summary EXCEPT ![t].risk_counts[risk] =
                         SumCounts({ x \in risk_history : x[1] = risk })]
  /\ IF th_k[t] < Len(RISK_CATEGORIES)
     THEN /\ th_k' = [th_k EXCEPT ![t] = th_k[t] + 1]
          /\ Goto(t, "s_risk")
     ELSE /\ th_k' = [th_k EXCEPT ![t] = 0]
          /\ Goto(t, "s_sensors")
  /\ UNCHANGED << mapperShared, map_result, coordShared, th_op, th_started,
                  th_pairs, th_reg, threadFrame >>
  /\ Observe

\* sorted(self.sensor_anomaly_counts.items(), ...), the top list, the return
SummaryReadSensors(t) ==
  /\ th_pc[t] = "s_sensors"
  /\ th_summary' = [th_summary EXCEPT ![t].top_affected_sensors =
                      GetHistoricalRiskSummary(Hist).top_affected_sensors]
  /\ Goto(t, "idle")
  /\ UNCHANGED << mapperShared, map_result, coordShared, th_op, th_started,
                  th_pairs, th_k, th_reg, threadFrame >>
  /\ Observe

(* --- process_data as initialize_system configures it ---------------- *)
\* self._log_event('Starting data processing pipeline', 'INFO')
ProcessLogStart(t) ==
  /\ Begin(t, "process")
  /\ execution_log' = LogEvent(execution_log, "Starting data processing pipeline",
                               "", "INFO")
  /\ Goto(t, "p_state")
  /\ UNCHANGED << mapperShared, map_result, system_state, th_pairs, th_k, th_reg,
                  th_summary, threadFrame >>
  /\ Observe

\* self.system_state = 'PROCESSING'
ProcessSetProcessing(t) ==
  /\ th_pc[t] = "p_state"
  /\ system_state' = "PROCESSING"
  /\ Goto(t, "p_stages")
  /\ UNCHANGED << mapperShared, map_result, execution_log, th_op, th_started,
                  th_pairs, th_k, th_reg, th_summary, threadFrame >>
  /\ Observe

\* the five mandatory stages: they work on locals only; they all return, or
\* one of them raises
ProcessStages(t) ==
  /\ th_pc[t] = "p_stages"
  /\ \E raised \in BOOLEAN : Goto(t, IF raised THEN "p_error" ELSE "p_map")
  /\ UNCHANGED << mapperShared, map_result, coordShared, th_op, th_started,
                  th_pairs, th_k, th_reg, th_summary, threadFrame >>
  /\ Observe

\* the risk-mapping block: building the argument raises KeyError (the
\* detector's result has no 'attack_probabilities'), which is logged
ProcessMapBlock(t) ==
  /\ th_pc[t] = "p_map"
  /\ MappingArgsRaise([keys |-> KeysOf(agents.fault_detection_agent)])
  /\ execution_log' = LogEvent(execution_log, "Risk mapping error",
                               KeyErrorText, "WARNING")
  /\ Goto(t, "p_completed")
  /\ UNCHANGED << mapperShared, map_result, system_state, th_op, th_started,
                  th_pairs, th_k, th_reg, th_summary, threadFrame >>
  /\ Observe

\* self.system_state = 'COMPLETED'
ProcessSetCompleted(t) ==
  /\ th_pc[t] = "p_completed"
  /\ system_state' = "COMPLETED"
  /\ Goto(t, "p_success")
  /\ UNCHANGED << mapperShared, map_result, execution_log, th_op, th_started,
                  th_pairs, th_k, th_reg, th_summary, threadFrame >>
  /\ Observe

\* self._log_event('Pipeline completed successfully', 'SUCCESS'); return
ProcessLogSuccess(t) ==
  /\ th_pc[t] = "p_success"
  /\ execution_log' = LogEvent(execution_log, "Pipeline completed successfully",
                               "", "SUCCESS")
  /\ Goto(t, "idle")
  /\ UNCHANGED << mapperShared, map_result, system_state, th_op, th_started,
                  th_pairs, th_k, th_reg, th_summary, threadFrame >>
  /\ Observe

\* except: self.system_state = 'ERROR'
ProcessSetError(t) ==
  /\ th_pc[t] = "p_error"
  /\ system_state' = "ERROR"
  /\ Goto(t, "p_error_log")
  /\ UNCHANGED << mapperShared, map_result, execution_log, th_op, th_started,
                  th_pairs, th_k, th_reg, th_summary, threadFrame >>
  /\ Observe

\* except: self._log_event('Pipeline error: ...', 'ERROR'); return
ProcessLogError(t) ==
  /\ th_pc[t] = "p_error_log"
  /\ execution_log' = LogEvent(execution_log, "Pipeline error",
                               StageError("preprocess"), "ERROR")
  /\ Goto(t, "idle")
  /\ UNCHANGED << mapperShared, map_result, system_state, th_op, th_started,
                  th_pairs, th_k, th_reg, th_summary, threadFrame >>
  /\ Observe

ThreadNext ==
  \/ initialize_system
  \/ \E t \in Threads : MapBegin(t)
  \/ \E t \in Threads : MapLoadCount(t)
  \/ \E t \in Threads : MapStoreCount(t)
  \/ \E t \in Threads : MapLoadTotal(t)
  \/ \E t \in Threads : MapStoreTotal(t)
  \/ \E t \in Threads : MapLoadRisk(t)
  \/ \E t \in Threads : MapStoreRisk(t)
  \/ \E t \in Threads : MapReturn(t)
  \/ \E t \in Threads : ResetClearHistory(t)
  \/ \E t \in Threads : ResetClearCounts(t)
  \/ \E t \in Threads : ResetZeroTotal(t)
  \/ \E t \in Threads : SummaryReadTotal(t)
  \/ \E t \in Threads : SummaryReadRisk(t)
  \/ \E t \in Threads : SummaryReadSensors(t)
  \/ \E t \in Threads : ProcessLogStart(t)
  \/ \E t \in Threads : ProcessSetProcessing(t)
  \/ \E t \in Threads : ProcessStages(t)
  \/ \E t \in Threads : ProcessMapBlock(t)
  \/ \E t \in Threads : ProcessSetCompleted(t)
  \/ \E t \in Threads : ProcessLogSuccess(t)
  \/ \E t \in Threads : ProcessSetError(t)
  \/ \E t \in Threads : ProcessLogError(t)

SpecThreads == Init /\ [][ThreadNext]_vars

(* ------------------------------------------------------------------ *)
(* C12 - C14: the shared objects under concurrent callers              *)
(* ------------------------------------------------------------------ *)
AllIdle == \A t \in Threads : th_pc[t] = "idle"

RECURSIVE SumDict(_, _)
\* the sum of the first k per-sensor counters
SumDict(d, k) == IF k = 0 THEN 0 ELSE d[k][2] + SumDict(d, k - 1)

\* the lifetime counters agree: the total is the sum of the per-sensor
\* counters, and every category counter of a sensor equals the sensor's counter
CountersAgree ==
  /\ total_anomalies = SumDict(sensor_anomaly_counts, Len(sensor_anomaly_counts))
  /\ \A s \in FrameColumns :
       \A i \in 1..Len(RisksOf(s)) :
          HistGet(risk_history, RisksOf(s)[i], s) = DictGet(sensor_anomaly_counts, s)
  /\ \A x \in risk_history : x[2] \in FrameColumns /\ InSeq(x[1], RisksOf(x[2]))

\* the operations the threads ran are exactly one call of each of the two
RanOnly(op1, op2) ==
  /\ th_started = 2
  /\ \E t, u \in Threads : t # u /\ th_op[t] = op1 /\ th_op[u] = op2

\* C12: reset_history is atomic with respect to a concurrently running
\* map_anomalies_to_risks call: once one call of each has finished, the
\* lifetime counters agree.
C12_ResetAtomic ==
  (AllIdle /\ RanOnly("map", "reset")) => CountersAgree

\* C13: a get_historical_risk_summary call made while a mapping call runs on
\* another thread returns the summary of the lifetime state of one instant of
\* the call.
C13_SummarySnapshot ==
  \A t \in Threads :
     (th_pc[t] = "idle" /\ th_op[t] = "summary" /\ RanOnly("summary", "map")) =>
        \E h \in th_seen[t] : th_summary[t] = GetHistoricalRiskSummary(h)

\* the threads inside process_data on the shared coordinator
InProcess == { t \in Threads : th_op[t] = "process" /\ th_pc[t] # "idle" }

\* C14: single-writer discipline: in the application no two threads are
\* inside process_data on the shared coordinator at the same time.
C14_SingleWriter == Cardinality(InProcess) <= 1

(* ------------------------------------------------------------------ *)
(* Direct calls of the scoring agents and of the pure methods of the   *)
(* RiskMappingAgent                                                    *)
(* ------------------------------------------------------------------ *)
\* detect() on a batch of n samples whose positive rows are S, with attack
\* probability pp (percent) on the positive rows and pn on the others
Batch(n, S, pp, pn) ==
  DetectResult([i \in 1..n |-> IF i \in S THEN 1 ELSE 0],
               [i \in 1..n |-> IF i \in S THEN pp ELSE pn], DetectKeys)

\* 85 positive rows among 100 whose longest run is 12: runs of 12 separated
\* by one negative row, then a single positive row
ScenarioPositives == { i \in 1..92 : i % 13 # 0 }

\* batches of 9, 20 and 100 samples
ScoringBatches ==
  { Batch(9, 1..9, 95, 5), Batch(9, {}, 95, 5) }
  \cup { Batch(20, 1..k, pp, 5) :
           k \in { 0, 1, 2, 3, 7, 10, 11, 12, 16, 17, 20 }, pp \in { 60, 90, 95 } }
  \cup { Batch(20, (1..3) \cup (5..8), 95, 5) }
  \cup { Batch(100, ScenarioPositives, 90, 90), Batch(100, ScenarioPositives, 96, 56) }

RiskLevels == { "low", "medium", "high", "critical" }
FaultSeverities == { "Low", "Medium", "High", "Critical" }

\* the two keys of a detect() result that the operational agent reads, for
\* batches of 100, 1000, 2000 and 5000 samples
DetectionSummaries ==
  { [num_anomalies |-> c[1], anomaly_rate |-> c] :
      c \in { <<0, 100>>, <<30, 100>>, <<31, 100>>, <<70, 100>>, <<71, 100>>,
              <<100, 1000>>, <<101, 1000>>, <<600, 2000>>, <<1000, 5000>>,
              <<1001, 5000>> } }

scoreFrame == << mapperVars, coordVars, callVars, threadVars, simVars >>

\* CyberRiskAssessmentAgent.assess_risk(detection_results, timestamps)
cyber_assess_risk ==
  /\ \E d \in ScoringBatches, given \in BOOLEAN :
       \E ts \in { IF given THEN Timestamps(Len(d.predictions)) ELSE NoTimestamps } :
          /\ sc_call' = [op |-> "cyber_assess_risk", detection_results |-> d,
                         timestamps |-> ts]
          /\ sc_result' = CyberAssessRisk(d, ts)
  /\ UNCHANGED scoreFrame

\* CyberRiskAssessmentAgent._classify_risk_level(score), score in hundredths
cyber_classify_risk_level ==
  /\ \E s \in 0..100 :
       /\ sc_call' = [op |-> "cyber_classify_risk_level", score |-> <<s, 100>>]
       /\ sc_result' = [risk_level |-> CyberClassifyRiskLevel(<<s, 100>>)]
  /\ UNCHANGED scoreFrame

\* OperationalRiskAssessmentAgent.assess_risk(detection_results, cyber_risk):
\* on the result of the cyber call just made, or on the keys it reads
operational_assess_risk ==
  /\ \/ /\ sc_call.op = "cyber_assess_risk"
        /\ sc_call' = [op |-> "operational_assess_risk", chained |-> TRUE,
                       detection_results |-> sc_call.detection_results,
                       cyber_risk |-> sc_result]
        /\ sc_result' = OperationalAssessRisk(sc_call.detection_results, sc_result)
     \/ \E d \in DetectionSummaries, level \in RiskLevels :
          /\ sc_call' = [op |-> "operational_assess_risk", chained |-> FALSE,
                         detection_results |-> d,
                         cyber_risk |-> [risk_level |-> level]]
          /\ sc_result' = OperationalAssessRisk(d, [risk_level |-> level])
  /\ UNCHANGED scoreFrame

\* DecisionMakingAgent.decide(cyber_assessment, operational_assessment) on
\* the assessments just made
decide ==
  /\ sc_call.op = "operational_assess_risk"
  /\ sc_call.chained
  /\ sc_call' = [op |-> "decide", cyber_assessment |-> sc_call.cyber_risk,
                 operational_assessment |-> sc_result]
  /\ sc_result' = Decide(sc_call.cyber_risk, sc_result)
  /\ UNCHANGED scoreFrame

\* DecisionMakingAgent._select_actions(cyber_risk, operational_risk, fault_severity)
select_actions ==
  /\ \E cyber_risk \in RiskLevels, operational_risk \in RiskLevels,
        fault_severity \in FaultSeverities :
       /\ sc_call' = [op |-> "select_actions", cyber_risk |-> cyber_risk,
                      operational_risk |-> operational_risk,
                      fault_severity |-> fault_severity]
       /\ sc_result' = [actions |-> SelectActions(cyber_risk, operational_risk,
                                                  fault_severity)]
  /\ UNCHANGED scoreFrame

\* three tiers of the action library, one after the other
TieredActions ==
  ActionLibrary("critical_cyber") \o ActionLibrary("critical_operational")
    \o ActionLibrary("high_cyber")

\* the action lists given to _prioritize_actions: the first n of the tiered
\* actions, for every n from 0
ActionLists == { SubSeq(TieredActions, 1, n) : n \in 0..Len(TieredActions) }

\* DecisionMakingAgent._prioritize_actions(actions, priority)
prioritize_actions ==
  /\ \E actions \in ActionLists, priority \in 1..4 :
       /\ sc_call' = [op |-> "prioritize_actions", actions |-> actions,
                      priority |-> priority]
       /\ sc_result' = PrioritizeActions(actions, priority)
  /\ UNCHANGED scoreFrame

\* DecisionMakingAgent._requires_human_approval(cyber_risk, operational_risk)
requires_human_approval ==
  /\ \E cyber_risk \in RiskLevels, operational_risk \in RiskLevels :
       /\ sc_call' = [op |-> "requires_human_approval", cyber_risk |-> cyber_risk,
                      operational_risk |-> operational_risk]
       /\ sc_result' = [requires_human_approval |->
                          RequiresHumanApproval(cyber_risk, operational_risk)]
  /\ UNCHANGED scoreFrame

\* a column whose mean is 1 and whose sample standard deviation is 2
UnitColumn == << 0, 0, 0, 0, 1, 5 >>

\* the frames given to _is_sensor_anomalous: LIT-101 with spread, LIT-101
\* constant, and P-101 always missing
ProbeFrames ==
  { [isNone |-> FALSE, cols |-> [c \in FrameColumns |->
                                   IF c = "LIT-101" THEN col ELSE Absent]] :
      col \in { UnitColumn, Flat, Spike(1) } }

\* the values given to _is_sensor_anomalous, as fractions: the readings of the
\* columns, and readings 2.0001 and 1.9999 deviations above and below the mean 1
ProbeValues ==
  { << v, 1 >> : v \in -4..6 } \cup
  { << v, 10000 >> : v \in { 50002, 49998, 0 - 30002, 0 - 29998 } }

\* RiskMappingAgent._is_sensor_anomalous(sensor_name, value, sensor_data)
is_sensor_anomalous ==
  /\ \E sensor_name \in FrameColumns, value \in ProbeValues,
        sensor_data \in ProbeFrames :
       /\ sc_call' = [op |-> "is_sensor_anomalous", sensor_name |-> sensor_name,
                      value |-> value, sensor_data |-> sensor_data]
       /\ sc_result' = [anomalous |->
                          IsSensorAnomalous(sensor_name, value, sensor_data)]
  /\ UNCHANGED scoreFrame

\* risk_contributions as the loop of map_anomalies_to_risks leaves it when
\* LIT-101 is anomalous on the first `lit` (0 or 1) positive rows and AIT-101 on
\* the first `ait`: per category the sensors appended, row by row and in table
\* order within a row
BulkContributions(lit, ait) ==
  [risk \in RiskSet |->
     (IF lit = 1 /\ InSeq(risk, RisksOf("LIT-101")) THEN << "LIT-101" >> ELSE << >>)
       \o (IF InSeq(risk, RisksOf("AIT-101"))
           THEN [i \in 1..ait |-> "AIT-101"] ELSE << >>)]

\* the numbers of rows on which AIT-101 is anomalous: none, a few, and the 1500
\* of a large upload (on a frame of 8000 rows a reading that is 1 on 1500 rows
\* and 0 elsewhere is 2.08 standard deviations from the mean on those rows)
BulkCounts == { 0, 1, 2, 3, 1500 }

\* risk_distribution = self._calculate_risk_distribution(risk_contributions)
\* majority_risk = self._identify_majority_risk(risk_distribution, risk_contributions)
identify_majority_risk ==
  /\ \E lit \in 0..1, ait \in BulkCounts :
       \E rc \in { BulkContributions(lit, ait) } :
         \E distribution \in { CalculateRiskDistribution(rc) } :
           /\ sc_call' = [op |-> "identify_majority_risk", lit |-> lit, ait |-> ait,
                          counts |-> [risk \in RiskSet |-> Len(rc[risk])]]
           /\ sc_result' = [risk_distribution |-> distribution,
                            majority_risk |-> IdentifyMajorityRisk(distribution, rc)]
  /\ UNCHANGED scoreFrame

ScoringNext ==
  \/ cyber_assess_risk
  \/ identify_majority_risk
  \/ is_sensor_anomalous
  \/ prioritize_actions
  \/ requires_human_approval
  \/ cyber_classify_risk_level
  \/ operational_assess_risk
  \/ decide
  \/ select_actions

SpecScoring == Init /\ [][ScoringNext]_vars

(* ------------------------------------------------------------------ *)
(* C15 - C20: the scores, levels and plans                             *)
(* ------------------------------------------------------------------ *)
\* the level of a score <<numerator, denominator>>: low below 0.3, medium
\* below 0.6, high below 0.85, critical from 0.85
LevelOf(score) ==
  IF 100 * score[1] < 30 * score[2] THEN "low"
  ELSE IF 100 * score[1] < 60 * score[2] THEN "medium"
  ELSE IF 100 * score[1] < 85 * score[2] THEN "high"
  ELSE "critical"

\* 0.4*avg + 0.3*rate + 0.3*temporal of a cyber assessment, in units of
\* 1/(1000 n) for a batch of n samples
WeightedSum(assessment) ==
  4 * assessment.avg_attack_probability[1]
    + 300 * assessment.anomaly_rate[1]
    + 30 * assessment.temporal_risk * assessment.anomaly_rate[2]

\* C15: the cyber score is 0.4*avgProbability + 0.3*anomalyRate +
\* 0.3*temporalRisk capped at 1.0 and lies in [0,1]; the level is low below
\* 0.3, medium from 0.3 below 0.6, high from 0.6 below 0.85, critical from 0.85.
C15_CyberScoreAndLevel ==
  /\ sc_call.op = "cyber_assess_risk" =>
       \A n \in { sc_result.anomaly_rate[2] } :
          /\ sc_result.avg_attack_probability[2] = 100 * n
          /\ sc_result.cyber_risk_score[2] = 1000 * n
          /\ sc_result.cyber_risk_score[1] =
               (IF WeightedSum(sc_result) > 1000 * n THEN 1000 * n
                ELSE WeightedSum(sc_result))
          /\ sc_result.cyber_risk_score[1] >= 0
          /\ sc_result.cyber_risk_score[1] <= sc_result.cyber_risk_score[2]
          /\ sc_result.risk_level = LevelOf(sc_result.cyber_risk_score)
  /\ sc_call.op = "cyber_classify_risk_level" =>
       /\ sc_result.risk_level = LevelOf(sc_call.score)
       /\ sc_call.score[1] = 29 => sc_result.risk_level = "low"
       /\ sc_call.score[1] \in { 30, 59 } => sc_result.risk_level = "medium"
       /\ sc_call.score[1] \in { 60, 84 } => sc_result.risk_level = "high"
       /\ sc_call.score[1] = 85 => sc_result.risk_level = "critical"

\* the score exactly on the first threshold has been classified
C15_Witness ==
  /\ sc_call.op = "cyber_classify_risk_level"
  /\ sc_call.score = <<30, 100>>
  /\ sc_result.risk_level = "medium"

\* the longest run of consecutive set flags
LongestRun(anomaly_flags) ==
  MaxOf({0} \cup
        { m \in 1..Len(anomaly_flags) :
            \E i \in 1..(Len(anomaly_flags) - m + 1) :
               \A j \in i..(i + m - 1) : anomaly_flags[j] })

\* the temporal risk of a batch, in tenths: 0 below 10 samples, else
\* min(1.0, longest run / 10)
ExpectedTemporalRisk(anomaly_flags) ==
  IF Len(anomaly_flags) < 10 THEN 0
  ELSE IF LongestRun(anomaly_flags) >= 10 THEN 10
  ELSE LongestRun(anomaly_flags)

\* C16: for every call of the cyber agent's assess_risk, with or without the
\* timestamps argument, the temporal risk is 0 for fewer than 10 samples and
\* min(1.0, longest run of positive labels / 10) otherwise.
C16_TemporalRisk ==
  sc_call.op = "cyber_assess_risk" =>
    sc_result.temporal_risk =
      ExpectedTemporalRisk(sc_call.detection_results.anomaly_detected)

\* the attack signature by the ordered rules, from the number k of positive
\* labels among n samples and the sum Ppos (percent) of their probabilities
ExpectedSignature(k, n, Ppos) ==
  CASE 10 * k > 8 * n -> "Persistent Attack"
    [] ~(10 * k > 8 * n) /\ 10 * k > 5 * n -> "Intermittent Attack"
    [] ~(10 * k > 5 * n) /\ k > 0 /\ Ppos > 90 * k -> "Targeted Attack"
    [] ~(10 * k > 5 * n) /\ ~(k > 0 /\ Ppos > 90 * k) /\ 10 * k > n -> "Sporadic Anomalies"
    [] OTHER -> "Normal Operation"

\* the sum of the attack probabilities of the positively labelled samples
PositiveProbSum(detection) ==
  SumTo([i \in 1..Len(detection.predictions) |->
           IF detection.predictions[i] = 1 THEN detection.attack_probability[i] ELSE 0],
        Len(detection.predictions))

\* C17: the attack signature follows the first matching rule: rate > 0.8
\* "Persistent Attack", else rate > 0.5 "Intermittent Attack", else mean
\* probability of the positive samples > 0.9 "Targeted Attack", else rate > 0.1
\* "Sporadic Anomalies", else "Normal Operation"; without a positive label it
\* is "Normal Operation".
C17_AttackSignature ==
  sc_call.op = "cyber_assess_risk" =>
    \A d \in { sc_call.detection_results } :
       /\ sc_result.attack_signature =
            ExpectedSignature(d.num_anomalies, Len(d.predictions), PositiveProbSum(d))
       /\ d.num_anomalies = 0 => sc_result.attack_signature = "Normal Operation"

\* a batch at rate 0.5 whose positive samples average 0.95: the third rule
C17_Witness ==
  /\ sc_call.op = "cyber_assess_risk"
  /\ sc_call.detection_results.anomaly_rate = <<10, 20>>
  /\ sc_call.detection_results.attack_probability[1] = 95
  /\ sc_result.attack_signature = "Targeted Attack"

\* the impact of an anomaly rate <<k, n>> and an anomaly count
ExpectedImpact(anomaly_rate, num_anomalies) ==
  IF 10 * anomaly_rate[1] > 7 * anomaly_rate[2] \/ num_anomalies > 1000 THEN "high"
  ELSE IF 10 * anomaly_rate[1] > 3 * anomaly_rate[2] \/ num_anomalies > 100
  THEN "medium"
  ELSE "low"

\* the 3x3 table of scores (tenths) by likelihood and impact
MatrixLevels == { "low", "medium", "high" }
MatrixTable ==
  [likelihood \in MatrixLevels |->
     [impact \in MatrixLevels |->
        CASE likelihood = "low" -> (CASE impact = "low" -> 1 [] impact = "medium" -> 2
                                      [] impact = "high" -> 4)
          [] likelihood = "medium" -> (CASE impact = "low" -> 3 [] impact = "medium" -> 5
                                         [] impact = "high" -> 7)
          [] likelihood = "high" -> (CASE impact = "low" -> 5 [] impact = "medium" -> 7
                                       [] impact = "high" -> 9)]]

\* C18: the operational score is the table value for (likelihood, impact):
\* impact is high for rate > 0.7 or count > 1000, medium for rate > 0.3 or
\* count > 100, else low; likelihood is the cyber level with critical taken
\* as high; the key is always in the table, so the default is never used.
C18_OperationalScore ==
  sc_call.op = "operational_assess_risk" =>
    \A level \in { sc_call.cyber_risk.risk_level } :
       \A normalized \in { IF level = "critical" THEN "high" ELSE level } :
          /\ level \in RiskLevels
          /\ sc_result.likelihood = level
          /\ sc_result.impact_level =
               ExpectedImpact(sc_call.detection_results.anomaly_rate,
                              sc_call.detection_results.num_anomalies)
          /\ normalized \in MatrixLevels
          /\ sc_result.impact_level \in MatrixLevels
          /\ sc_result.operational_risk_score =
               MatrixTable[normalized][sc_result.impact_level]

\* a critical cyber level with 1001 anomalies at rate 0.2: impact high by the
\* count alone, likelihood taken as high
C18_Witness ==
  /\ sc_call.op = "operational_assess_risk"
  /\ sc_call.cyber_risk.risk_level = "critical"
  /\ sc_call.detection_results.anomaly_rate = <<1001, 5000>>
  /\ sc_result.impact_level = "high"
  /\ sc_result.operational_risk_score = 9

\* the batch of the end-to-end scenario: 100 samples, 85 positive labels,
\* mean attack probability 0.90, longest positive run 12
IsScenarioBatch(d) ==
  /\ Len(d.predictions) = 100
  /\ d.num_anomalies = 85
  /\ SumTo(d.attack_probability, Len(d.attack_probability)) = 9000
  /\ LongestRun(d.anomaly_detected) = 12

\* the cyber assessment the pipeline makes of the scenario batch
IsScenarioCyber(assessment) ==
  /\ assessment.anomaly_rate = <<85, 100>>
  /\ assessment.avg_attack_probability = <<9000, 10000>>
  /\ assessment.temporal_risk = 10

\* what the scenario expects of the cyber assessment
ScenarioCyberExpected(assessment) ==
  /\ assessment.temporal_risk = 10
  /\ assessment.anomaly_rate = <<85, 100>>
  /\ assessment.cyber_risk_score = <<91500, 100000>>
  /\ assessment.risk_level = "critical"
  /\ assessment.attack_signature = "Persistent Attack"

\* what the scenario expects of the operational assessment
ScenarioOperationalExpected(assessment) ==
  /\ assessment.impact_level = "high"
  /\ assessment.operational_risk_score = 9
  /\ assessment.risk_level = "critical"
  /\ assessment.fault_severity = "Critical"
  /\ assessment.affected_systems =
       << "Primary Treatment", "Distribution System", "Safety Systems" >>
  /\ assessment.estimated_downtime_minutes = 240
  /\ assessment.mitigation_priority = 1

\* what the scenario expects of the plan, with the given timeline label
ScenarioPlanExpected(plan, timeline) ==
  /\ plan.primary_threat = "Combined Cyber-Physical Threat"
  /\ plan.requires_human_approval
  /\ plan.response_timeline = timeline
  /\ plan.estimated_resolution_time = 240

\* the scenario through the three agents, with the given timeline label
ScenarioHolds(timeline) ==
  /\ (/\ sc_call.op = "cyber_assess_risk"
      /\ IsScenarioBatch(sc_call.detection_results)
      /\ ~sc_call.timestamps.isNone) => ScenarioCyberExpected(sc_result)
  /\ (/\ sc_call.op = "operational_assess_risk"
      /\ sc_call.chained
      /\ IsScenarioCyber(sc_call.cyber_risk)) =>
         /\ ScenarioCyberExpected(sc_call.cyber_risk)
         /\ ScenarioOperationalExpected(sc_result)
  /\ (/\ sc_call.op = "decide"
      /\ IsScenarioCyber(sc_call.cyber_assessment)) =>
         /\ ScenarioOperationalExpected(sc_call.operational_assessment)
         /\ ScenarioPlanExpected(sc_result, timeline)

OperationalTiers ==
  { "critical_operational", "high_operational", "medium_risk", "low_risk" }

\* the cyber-tier actions of a cyber level: none below high
CyberTierOf(cyber_risk) ==
  IF cyber_risk = "critical" THEN ActionLibrary("critical_cyber")
  ELSE IF cyber_risk = "high" THEN ActionLibrary("high_cyber")
  ELSE << >>

NoDuplicate(actions) ==
  \A i, j \in 1..Len(actions) : i # j => actions[i] # actions[j]

\* C20: for every cyber level, operational level and fault severity the
\* recommended actions have no duplicate and keep first-seen order: the
\* cyber-tier actions (only for cyber level critical or high) in library
\* order, then the actions of exactly one operational tier in library order.
C20_ActionList ==
  sc_call.op = "select_actions" =>
    \A first \in { CyberTierOf(sc_call.cyber_risk) } :
       /\ NoDuplicate(sc_result.actions)
       /\ Len(sc_result.actions) >= Len(first)
       /\ SubSeq(sc_result.actions, 1, Len(first)) = first
       /\ Len(first) > 0 <=> sc_call.cyber_risk \in { "critical", "high" }
       /\ Cardinality({ tier \in OperationalTiers :
                          SubSeq(sc_result.actions, Len(first) + 1,
                                 Len(sc_result.actions)) = ActionLibrary(tier) }) = 1

\* a critical cyber level with a critical operational level: both tiers are
\* in the list
C20_Witness ==
  /\ sc_call.op = "select_actions"
  /\ sc_call.cyber_risk = "critical"
  /\ sc_call.operational_risk = "critical"
  /\ Len(sc_result.actions) = 10
  /\ sc_result.actions[6] = "Emergency shutdown of affected stages"


(* ------------------------------------------------------------------ *)
(* Action buckets and human approval                                   *)
(* ------------------------------------------------------------------ *)
\* the first k entries of a list (the whole list when it is shorter)
FirstOf(actions, k) ==
  SubSeq(actions, 1, IF k < Len(actions) THEN k ELSE Len(actions))

\* the entries of a list after its first k (none when it is not longer)
AfterFirst(actions, k) ==
  IF k >= Len(actions) THEN << >> ELSE SubSeq(actions, k + 1, Len(actions))

\* the size of the immediate bucket stated for a priority
ImmediateSize(priority) ==
  IF priority = 1 THEN 3 ELSE IF priority = 2 THEN 2 ELSE 1

\* the buckets stated for an action list and a priority
ExpectedBuckets(actions, priority) ==
  LET rest == AfterFirst(actions, ImmediateSize(priority))
  IN [immediate |-> FirstOf(actions, ImmediateSize(priority)),
      short_term |-> FirstOf(rest, 3),
      ongoing |-> AfterFirst(rest, 3)]

\* C21: for every action list (the empty one included) and every priority the
\* buckets are the first 3 / 2 / 1 actions (priority 1 / 2 / 3 and above), the
\* next 3 and the rest, and immediate, short-term and ongoing concatenated are
\* the action list itself; the same holds of the buckets of every plan
C21_Buckets ==
  /\ sc_call.op = "prioritize_actions" =>
       /\ sc_result = ExpectedBuckets(sc_call.actions, sc_call.priority)
       /\ sc_result.immediate \o sc_result.short_term \o sc_result.ongoing
            = sc_call.actions
  /\ sc_call.op = "decide" =>
       /\ sc_result.action_priority
            = ExpectedBuckets(sc_result.recommended_actions,
                              sc_call.operational_assessment.mitigation_priority)
       /\ sc_result.action_priority.immediate \o sc_result.action_priority.short_term
            \o sc_result.action_priority.ongoing = sc_result.recommended_actions

\* a priority-2 call on seven actions fills the three buckets with 2, 3 and 2
C21_Witness ==
  /\ sc_call.op = "prioritize_actions"
  /\ sc_call.priority = 2
  /\ Len(sc_call.actions) = 7
  /\ Len(sc_result.immediate) = 2
  /\ Len(sc_result.short_term) = 3
  /\ Len(sc_result.ongoing) = 2

\* C22: a plan requires human approval exactly when the cyber level or the
\* operational level is critical
C22_HumanApproval ==
  /\ sc_call.op = "requires_human_approval" =>
       (sc_result.requires_human_approval
          <=> (sc_call.cyber_risk = "critical" \/ sc_call.operational_risk = "critical"))
  /\ sc_call.op = "decide" =>
       (sc_result.requires_human_approval
          <=> (sc_call.cyber_assessment.risk_level = "critical"
                 \/ sc_call.operational_assessment.risk_level = "critical"))

\* a plan built from a non-critical cyber level and a critical operational
\* level requires approval
C22_Witness ==
  /\ sc_call.op = "decide"
  /\ sc_call.cyber_assessment.risk_level # "critical"
  /\ sc_call.operational_assessment.risk_level = "critical"
  /\ sc_result.requires_human_approval


(* ------------------------------------------------------------------ *)
(* The two-standard-deviation test                                     *)
(* ------------------------------------------------------------------ *)
\* whether all the readings of a column are equal (its standard deviation is 0)
ConstantColumn(col) == \A r \in 1..Len(col) : col[r] = col[1]

\* C23: a sensor is flagged exactly when its absolute standardized deviation is
\* strictly greater than 2.0: with a missing column or a constant column the
\* answer is False; on the column of mean 1 and standard deviation 2 the answer
\* is True exactly for |value - 1| > 4, so 5 (deviation 2.0) is not flagged and
\* 5.0002 (deviation 2.0001) is; on the column with a single 1 among n readings
\* (mean 1/n, standard deviation 1/sqrt(n)) exactly for (n*value - 1)^2 > 4n
C23_TwoSigma ==
  sc_call.op = "is_sensor_anomalous" =>
    \A col \in { sc_call.sensor_data.cols[sc_call.sensor_name] } :
      \A num \in { sc_call.value[1] }, den \in { sc_call.value[2] } :
        /\ (col = Absent \/ ConstantColumn(col)) => ~sc_result.anomalous
        /\ col = UnitColumn =>
             (sc_result.anomalous <=> Abs(num - den) > 4 * den)
        /\ (col = Spike(1) /\ den = 1) =>
             (sc_result.anomalous
                <=> (NumRows * num - 1) * (NumRows * num - 1) > 4 * NumRows)

\* the reading 2.0001 standard deviations above the mean has been flagged
C23_Witness ==
  /\ sc_call.op = "is_sensor_anomalous"
  /\ sc_call.sensor_data.cols[sc_call.sensor_name] = UnitColumn
  /\ sc_call.value = << 50002, 10000 >>
  /\ sc_result.anomalous


(* ------------------------------------------------------------------ *)
(* Consistency of the lifetime counters                                *)
(* ------------------------------------------------------------------ *)
\* the sensors of the frames that the table maps to a category
SensorsOf(risk) == { s \in FrameColumns : InSeq(risk, RisksOf(s)) }

RECURSIVE SumOverSensors(_, _)
\* the sum of the per-sensor counters of a set of sensors
SumOverSensors(d, S) ==
  IF S = {} THEN 0
  ELSE LET s == CHOOSE x \in S : TRUE
       IN DictGet(d, s) + SumOverSensors(d, S \ {s})

\* C24: after any sequence of map_anomalies_to_risks and reset_history calls
\* made one after the other, total_anomalies is the sum of the per-sensor
\* counters, every category counter of a sensor equals the sensor's counter, and
\* the cumulative count of a category is the sum of the per-sensor counters of
\* the sensors mapped to it
C24_HistoryConsistent ==
  /\ CountersAgree
  /\ \A risk \in RiskSet :
       SumCounts({ x \in risk_history : x[1] = risk })
         = SumOverSensors(sensor_anomaly_counts, SensorsOf(risk))

\* a mapping call after a reset has counted both sensors
C24_Witness ==
  /\ last_call.op = "map"
  /\ last_call.prev = "reset"
  /\ DictGet(sensor_anomaly_counts, "LIT-101") > 0
  /\ DictGet(sensor_anomaly_counts, "P-101") > 0
  /\ total_anomalies >= 2


(* ------------------------------------------------------------------ *)
(* The empty result and the lifetime counters                          *)
(* ------------------------------------------------------------------ *)
\* C25: a map_anomalies_to_risks call that returns the empty-result structure
\* leaves risk_history, sensor_anomaly_counts and total_anomalies as they were
\* before the call
C25_EmptyResultKeepsCounters ==
  [][(last_call'.op = "map" /\ map_calls' = map_calls + 1
        /\ map_result' = EmptyRiskMapping)
       => UNCHANGED << risk_history, sensor_anomaly_counts, total_anomalies >>]_vars


(* ------------------------------------------------------------------ *)
(* Critical fault severity and the plan                                *)
(* ------------------------------------------------------------------ *)
\* C26: a plan built from an operational assessment whose fault severity is
\* "Critical" requires human approval and has the IMMEDIATE response timeline
C26_CriticalSeverityEscalates ==
  (sc_call.op = "decide"
     /\ sc_call.operational_assessment.fault_severity = "Critical")
    => /\ sc_result.requires_human_approval
       /\ sc_result.response_timeline = "IMMEDIATE (0-5 minutes)"


(* ------------------------------------------------------------------ *)
(* The real-time simulation: socket handlers and simulation_loop       *)
(* threads (app.py).  start_simulation creates a daemon thread running  *)
(* simulation_loop; stop_simulation only clears the flag the loop tests *)
(* at the head of every iteration.  The time of time.sleep is not       *)
(* modelled: a sleeping loop wakes at any later step.                   *)
(* ------------------------------------------------------------------ *)
\* simulation_loop threads explored, and process_data calls they make
MaxLoops == 2
MaxBatches == 3

\* the simulation_loop threads created so far
Loops == 1..Len(loop_pc)

\* the loop of thread w moves to a position
LoopGoto(w, position) == loop_pc' = [loop_pc EXCEPT ![w] = position]

\* what the steps of simulation_loop leave alone
simFrame == << mapperVars, agents, execution_log, pc, localVars, stage_calls,
               result, threadVars, scoreVars >>

\* @socketio.on('start_simulation')
handle_start_simulation ==
  /\ \E size \in BatchSizes :
       IF agents = NoAgents
       THEN /\ emitted' = "error: System not initialized"
            /\ UNCHANGED << simulation_running, simulation_thread, loop_pc,
                            batch_size >>
       ELSE IF simulation_running
       THEN /\ emitted' = "error: Simulation already running"
            /\ UNCHANGED << simulation_running, simulation_thread, loop_pc,
                            batch_size >>
       ELSE /\ Len(loop_pc) < MaxLoops
            /\ batch_size' = size
            /\ simulation_running' = TRUE
            /\ loop_pc' = Append(loop_pc, "check")
            /\ simulation_thread' = Len(loop_pc) + 1
            /\ emitted' = "simulation_started"
  /\ UNCHANGED << simFrame, system_state, calls, current_index >>

\* @socketio.on('stop_simulation')
handle_stop_simulation ==
  /\ simulation_running' = FALSE
  /\ emitted' = "simulation_stopped"
  /\ UNCHANGED << simFrame, system_state, calls, simulation_thread, loop_pc,
                  current_index, batch_size >>

\* while simulation_running:
LoopCheck(w) ==
  /\ loop_pc[w] = "check"
  /\ LoopGoto(w, IF simulation_running THEN "batch" ELSE "stopped")
  /\ UNCHANGED << simFrame, system_state, calls, simulation_running,
                  simulation_thread, current_index, batch_size, emitted >>

\* DataSimulator.get_next_batch: the index after the batch
NextIndex(index, size) ==
  LET start == IF index >= TestRows THEN 0 ELSE index
  IN IF start + size < TestRows THEN start + size ELSE TestRows

\* batch = data_simulator.get_next_batch()
LoopNextBatch(w) ==
  /\ loop_pc[w] = "batch"
  /\ current_index' = NextIndex(current_index, batch_size)
  /\ LoopGoto(w, "process")
  /\ UNCHANGED << simFrame, system_state, calls, simulation_running,
                  simulation_thread, batch_size, emitted >>

\* results = coordinator.process_data(batch): the call begins
LoopProcessBegin(w) ==
  /\ loop_pc[w] = "process"
  /\ calls < MaxBatches
  /\ calls' = calls + 1
  /\ system_state' = "PROCESSING"
  /\ LoopGoto(w, "processing")
  /\ UNCHANGED << simFrame, simulation_running, simulation_thread,
                  current_index, batch_size, emitted >>

\* results = coordinator.process_data(batch): the call returns
LoopProcessEnd(w) ==
  /\ loop_pc[w] = "processing"
  /\ system_state' \in { "COMPLETED", "ERROR" }
  /\ LoopGoto(w, "emit")
  /\ UNCHANGED << simFrame, calls, simulation_running, simulation_thread,
                  current_index, batch_size, emitted >>

\* format_results and socketio.emit('real_time_update', ...); an exception
\* raised by either is reported and ends the loop
LoopEmit(w) ==
  /\ loop_pc[w] = "emit"
  /\ \/ /\ emitted' = "real_time_update"
        /\ LoopGoto(w, "sleep")
     \/ /\ emitted' = "error"
        /\ LoopGoto(w, "stopped")
  /\ UNCHANGED << simFrame, system_state, calls, simulation_running,
                  simulation_thread, current_index, batch_size >>

\* time.sleep(data_simulator.delay) returns
LoopSleep(w) ==
  /\ loop_pc[w] = "sleep"
  /\ LoopGoto(w, "check")
  /\ UNCHANGED << simFrame, system_state, calls, simulation_running,
                  simulation_thread, current_index, batch_size, emitted >>

SimNext ==
  \/ initialize_system
  \/ handle_start_simulation
  \/ handle_stop_simulation
  \/ \E w \in Loops : LoopCheck(w)
  \/ \E w \in Loops : LoopNextBatch(w)
  \/ \E w \in Loops : LoopProcessBegin(w)
  \/ \E w \in Loops : LoopProcessEnd(w)
  \/ \E w \in Loops : LoopEmit(w)
  \/ \E w \in Loops : LoopSleep(w)

SpecSimulation == Init /\ [][SimNext]_vars

\* the simulation_loop threads that have not returned
AliveLoops == { w \in Loops : loop_pc[w] # "stopped" }

\* the simulation_loop threads inside an iteration, between fetching a batch
\* and emitting its results
BusyLoops ==
  { w \in Loops : loop_pc[w] \in { "batch", "process", "processing", "emit" } }

\* C27: at most one simulation_loop thread is alive at any time, and no two
\* are inside an iteration on the shared coordinator and simulator
C27_SingleLoop ==
  /\ Cardinality(AliveLoops) <= 1
  /\ Cardinality(BusyLoops) <= 1


(* ------------------------------------------------------------------ *)
(* The majority category                                               *)
(* ------------------------------------------------------------------ *)
\* the first category, in the order of RISK_CATEGORIES, with the greatest count
FirstGreatest(counts) ==
  RISK_CATEGORIES[CHOOSE k \in 1..Len(RISK_CATEGORIES) :
                    /\ \A j \in 1..Len(RISK_CATEGORIES) :
                         counts[RISK_CATEGORIES[j]] <= counts[RISK_CATEGORIES[k]]
                    /\ \A j \in 1..(k - 1) :
                         counts[RISK_CATEGORIES[j]] < counts[RISK_CATEGORIES[k]]]

\* C29: with at least one contribution the majority category is the category
\* with the greatest raw contribution count, the first in the order of
\* RISK_CATEGORIES among equal counts, whatever the rounding of the distribution
C29_MajorityIsGreatestCount ==
  (sc_call.op = "identify_majority_risk"
     /\ \E risk \in RiskSet : sc_call.counts[risk] > 0)
    => sc_result.majority_risk.category = FirstGreatest(sc_call.counts)


(* ------------------------------------------------------------------ *)
(* The risk mapper and failed calls                                    *)
(* ------------------------------------------------------------------ *)
\* whether the process_data call in progress (or the last one) has invoked the
\* risk mapper
MapperInvoked == \E i \in 1..Len(stage_calls) : stage_calls[i].stage = "map"

\* whether the call in progress has got its plan from the decision agent
PlanProduced ==
  /\ decisions.isSet
  /\ \E i \in 1..Len(stage_calls) :
       stage_calls[i].stage = "decide" /\ ~stage_calls[i].raised

\* C28: a process_data call that ends with status ERROR never invoked the risk
\* mapper, so it leaves the mapper's lifetime counters as they were; the mapper
\* is invoked, and its state changes, only in a step taken after the plan of
\* the same call has been produced
C28_MapperOnlyAfterPlan ==
  /\ [](MapperInvoked =>
          (pc = "complete" \/ (pc = "idle" /\ result.status = "SUCCESS")))
  /\ [][ /\ (mapperVars' # mapperVars) => (pc = "map" /\ PlanProduced)
         /\ (pc # "idle" /\ pc' = "idle" /\ result'.status = "ERROR") =>
              (~MapperInvoked' /\ UNCHANGED mapperVars) ]_vars

\* a call has ended with ERROR after an earlier call had the mapper count
\* anomalies
C28_Witness ==
  /\ pc = "idle"
  /\ calls = 2
  /\ result.status = "ERROR"
  /\ ~MapperInvoked
  /\ total_anomalies > 0
  /\ map_calls = 1


(* ------------------------------------------------------------------ *)
(* The categories no sensor maps to                                    *)
(* ------------------------------------------------------------------ *)
\* the categories of RISK_CATEGORIES that no list of SENSOR_RISK_MAP names
UnmappedCategories == { "Unauthorized Access", "Denial of Service" }

\* C30: no sensor of SENSOR_RISK_MAP maps to "Unauthorized Access" or "Denial
\* of Service", and after any sequence of mapping calls these two categories
\* have distribution value 0 and no contribution in the last result, cumulative
\* count 0 in the history and in the summary, and are not the majority category
C30_UnmappedCategoriesStayZero ==
  \A risk \in UnmappedCategories :
    /\ InSeq(risk, RISK_CATEGORIES)
    /\ \A s \in SensorNames : ~InSeq(risk, RisksOf(s))
    /\ map_result.distribution[risk] = 0
    /\ map_result.risk_details[risk].total = 0
    /\ map_result.majority_risk.category # risk
    /\ \A x \in risk_history : x[1] # risk
    /\ summary.risk_counts[risk] = 0
    /\ GetHistoricalRiskSummary(Hist).risk_counts[risk] = 0

\* two mapping calls have counted anomalies of both sensors of the frame and
\* the last one reports a majority category
C30_Witness ==
  /\ last_call.op = "map"
  /\ map_calls = 2
  /\ DictGet(sensor_anomaly_counts, "LIT-101") > 0
  /\ DictGet(sensor_anomaly_counts, "P-101") > 0
  /\ map_result.majority_risk.category \in RiskSet

====
